---- MODULE Spec2Model ----
(***************************************************************************)
(* LocalTube: the library store (IndexedDB tables behind src/db.ts), the   *)
(* in-memory React state of App, and the handlers that keep them in step:  *)
(* handleAddLibraryFolder, handleRescanLibrary, handleImportLibrary,       *)
(* updateVideo and deleteVideo.                                            *)
(*                                                                         *)
(* A string is a sequence of one-character strings, so that join('/') and  *)
(* the extension test are computed and not assumed.                        *)
(***************************************************************************)
EXTENDS Integers, Sequences, FiniteSets, TLC

(***************************************************************************)
(* Bounds                                                                  *)
(***************************************************************************)
\* number of registered library folders
MaxFolders == 2
\* number of handler runs and disk changes in one behaviour
MaxSteps == 5

(***************************************************************************)
(* Names                                                                   *)
(***************************************************************************)
sLib == <<"L", "i", "b">>
sAlt == <<"A", "l", "t">>
sSub == <<"s", "u", "b">>
sA == <<"a", ".", "m", "p", "4">>
sB == <<"b", ".", "M", "K", "V">>
sTxt == <<"n", ".", "t", "x", "t">>
sLibSlashA == <<"L", "i", "b", "/", "a", ".", "m", "p", "4">>

\* String.prototype.toLowerCase on one character (the /i flag of the regex)
LowerChar(c) ==
    CASE c = "M" -> "m"
      [] c = "K" -> "k"
      [] c = "V" -> "v"
      [] c = "P" -> "p"
      [] c = "A" -> "a"
      [] c = "L" -> "l"
      [] OTHER -> c

Lower(s) == [i \in 1..Len(s) |-> LowerChar(s[i])]

VideoExtensions ==
    { <<"m", "p", "4">>, <<"w", "e", "b", "m">>, <<"m", "o", "v">>,
      <<"m", "k", "v">>, <<"a", "v", "i">> }

\* the regex without its i flag
MatchesVideoExt_CaseSensitive(name) ==
    \E ext \in VideoExtensions :
        /\ Len(name) >= Len(ext) + 1
        /\ SubSeq(name, Len(name) - Len(ext), Len(name)) = <<".">> \o ext

\* handle.name.match(/\.(mp4|webm|mov|mkv|avi)$/i)
MatchesVideoExt(name) ==
    \E ext \in VideoExtensions :
        /\ Len(name) >= Len(ext) + 1
        /\ Lower(SubSeq(name, Len(name) - Len(ext), Len(name))) = <<".">> \o ext

RECURSIVE Join(_)
\* Array.prototype.join('/')
Join(path) ==
    IF Len(path) = 0 THEN <<>>
    ELSE IF Len(path) = 1 THEN path[1]
    ELSE path[1] \o <<"/">> \o Join(Tail(path))

(***************************************************************************)
(* The file system: each directory the user can pick is a tree of handles. *)
(* ok of a file: metadata extraction succeeds; ok of a directory: values() *)
(* can be enumerated (permission still granted).                           *)
(***************************************************************************)
Dirs == {"d1", "d2"}

FileNode(n, ok) == [name |-> n, kind |-> "file", ok |-> ok, children |-> <<>>]
DirNode(n, ok, ch) == [name |-> n, kind |-> "directory", ok |-> ok, children |-> ch]

TreesOf(d) ==
    IF d = "d1"
    THEN { DirNode(sLib, TRUE, <<FileNode(sA, TRUE)>>),
           DirNode(sLib, TRUE, << FileNode(sA, FALSE),
                                  DirNode(sSub, TRUE, <<FileNode(sB, TRUE)>>),
                                  FileNode(sTxt, TRUE) >>),
           DirNode(sLib, FALSE, <<FileNode(sA, TRUE)>>) }
    ELSE { DirNode(sAlt, TRUE, <<>>),
           DirNode(sAlt, TRUE, <<FileNode(sA, TRUE)>>),
           DirNode(sAlt, FALSE, <<FileNode(sA, TRUE)>>) }

InitialTree(d) == IF d = "d1" THEN DirNode(sLib, TRUE, <<FileNode(sA, TRUE)>>)
                  ELSE DirNode(sAlt, TRUE, <<>>)

(***************************************************************************)
(* Records                                                                 *)
(***************************************************************************)
\* a property that is undefined, and one that holds x
Undefined == <<>>
Defined(x) == <<x>>

NoHandle == [dir |-> "none", path |-> <<>>]
FileHandle(d, path) == [dir |-> d, path |-> path]

\* the object literal of processVideoHandle
NewVideo(id, handle, path, fileName, dateAdded) ==
    [id |-> id, handle |-> handle, filePath |-> path, name |-> fileName, rating |-> 0,
     dateAdded |-> dateAdded, transcript |-> Undefined]

Range(s) == {s[i] : i \in 1..Len(s)}

RECURSIVE SortedIds(_)
SortedIds(S) ==
    IF S = {} THEN <<>>
    ELSE LET m == CHOOSE x \in S : \A y \in S : x <= y
         IN <<m>> \o SortedIds(S \ {m})

\* Table.toArray(): the rows in primary-key order
ToArray(table) == [i \in 1..Cardinality(DOMAIN table) |-> table[SortedIds(DOMAIN table)[i]]]


(***************************************************************************)
(* Persistence (src/db.ts).  A table is a function from primary key to row.*)
(***************************************************************************)
\* Table.put: insert or replace, keyed by id
Put(table, row) ==
    [k \in DOMAIN table \cup {row.id} |-> IF k = row.id THEN row ELSE table[k]]

RECURSIVE BulkAddRows(_, _)
\* Table.bulkAdd outside a transaction: every row whose key is free is
\* stored, a row whose key is taken is not
BulkAddRows(table, rows) ==
    IF rows = <<>> THEN table
    ELSE LET r == Head(rows)
         IN BulkAddRows(IF r.id \in DOMAIN table THEN table ELSE Put(table, r), Tail(rows))

RECURSIVE BulkAddRejects(_, _)
\* Table.bulkAdd rejects (BulkError) when some row's key is already taken
BulkAddRejects(table, rows) ==
    IF rows = <<>> THEN FALSE
    ELSE LET r == Head(rows)
         IN \/ r.id \in DOMAIN table
            \/ BulkAddRejects(Put(table, r), Tail(rows))

\* Table.bulkDelete / Table.delete: absent keys are ignored
BulkDelete(table, ids) == [k \in DOMAIN table \ ids |-> table[k]]

RECURSIVE PutAll(_, _)
PutAll(table, rows) ==
    IF rows = <<>> THEN table ELSE PutAll(Put(table, Head(rows)), Tail(rows))

EmptyTable == [k \in {} |-> k]

(***************************************************************************)
(* State                                                                   *)
(***************************************************************************)
VARIABLES
    fs,               \* directory handle -> its tree on disk
    libraryFolders,   \* db.libraryFolders, in registration order
    dbVideos,         \* db.videos
    dbPlaylists,      \* db.playlists
    videos,           \* React state of App
    playlists,        \* React state of App
    nextId,           \* next value of crypto.randomUUID()
    pc,               \* position of the running handleRescanLibrary
    scan,             \* its locals: allDbVideos, foundPaths and the three lists
    settled,          \* the last thing that happened was a fully applied pass
    quiet,            \* nothing ran since the running pass started
    lastOp,           \* the handler that ran last, its input and how it ended
    steps,            \* handler runs and disk changes so far
    interrupted,      \* what the pass whose writes were cut short would have stored
    extraction,       \* the running extractMetadataFromFile: its file and promises
    walk,             \* the scans in progress, file by file: one per handler
    uploads,          \* the reader.onload callbacks of the info panel not yet run
    player            \* selectedVideoId, currentVideoUrl, the runs of the URL effect

vars == <<fs, libraryFolders, dbVideos, dbPlaylists, videos, playlists,
          nextId, pc, scan, settled, quiet, lastOp, steps, interrupted,
          extraction, walk, uploads, player>>

NoBackup == [syntax |-> "none", vshape |-> "none", videos |-> <<>>,
             pshape |-> "none", playlists |-> <<>>]

Op(name, outcome, ioFailed) ==
    [op |-> name, outcome |-> outcome, ioFailed |-> ioFailed, backup |-> NoBackup,
     args |-> <<>>]

EmptyScan == [allDbVideos |-> <<>>, foundPaths |-> {}, videosToAdd |-> <<>>,
              videosToUpdate |-> <<>>, deletedVideoIds |-> <<>>]

\* no pass has been cut short since the last handler or disk change
NoInterrupt == [pending |-> FALSE, ideal |-> {}]

\* a handler that is not scanning, and no handler scanning
IdleScan == [phase |-> "idle", calls |-> <<>>, next |-> 1, inFlight |-> {},
             results |-> <<>>, snapshot |-> <<>>]
NoWalk == [p \in {"addFolder", "rescan"} |-> IdleScan]

\* nothing is selected, no URL has been created, the effect has not run
NoPlayer == [selectedVideoId |-> Undefined, currentVideoUrl |-> Undefined,
             effects |-> <<>>, urls |-> <<>>]

\* no extraction is running
NoExtraction == [file |-> Undefined, phase |-> "none", thumbnail |-> Undefined,
                 adv |-> "none", advancedData |-> Undefined, videoData |-> Undefined]

Init ==
    /\ fs = [d \in Dirs |-> InitialTree(d)]
    /\ libraryFolders = <<>>
    /\ dbVideos = EmptyTable
    /\ dbPlaylists = EmptyTable
    /\ videos = <<>>
    /\ playlists = <<>>
    /\ nextId = 1
    /\ pc = "idle"
    /\ scan = EmptyScan
    /\ settled = "no"
    /\ quiet = FALSE
    /\ lastOp = Op("init", "ok", FALSE)
    /\ steps = 0
    /\ interrupted = NoInterrupt
    /\ extraction = NoExtraction
    /\ walk = NoWalk
    /\ uploads = {}
    /\ player = NoPlayer

\* every handler other than the rescan itself ends a quiet period
Disturb == settled' = "no" /\ quiet' = FALSE /\ interrupted' = NoInterrupt

\* one more handler run or disk change
Tick == steps < MaxSteps /\ steps' = steps + 1

(***************************************************************************)
(* The user changes the disk outside the application.                      *)
(***************************************************************************)
FsChange(d, t) ==
    /\ t \in TreesOf(d)
    /\ t # fs[d]
    /\ fs' = [fs EXCEPT ![d] = t]
    /\ lastOp' = Op("fsChange", "ok", FALSE)
    /\ Disturb
    /\ UNCHANGED <<libraryFolders, dbVideos, dbPlaylists, videos, playlists,
                   nextId, pc, scan>>


(***************************************************************************)
(* processVideoHandle: getFile, extractMetadataFromFile, a fresh record.   *)
(* It throws when the extraction rejects.                                  *)
(***************************************************************************)
ProcessVideoHandleThrows(handle) == ~handle.ok

\* Date.now(): the clock advances with every handler run and disk change
DateNow == steps + 1

ProcessVideoHandle(d, handle, path, id) ==
    NewVideo(id, FileHandle(d, path), path, handle.name, DateNow)

(***************************************************************************)
(* handleAddLibraryFolder                                                  *)
(***************************************************************************)
\* the walk's locals: newVideos, the id counter, and whether it threw
AddWalk0(id) == [newVideos |-> <<>>, nextId |-> id, thrown |-> FALSE]

\* the file branch of handleAddLibraryFolder.processEntry
AddFile(st, existingPaths, d, handle, currentPath) ==
    IF MatchesVideoExt(handle.name) /\ Join(currentPath) \notin existingPaths
    THEN IF ProcessVideoHandleThrows(handle)
         THEN st
         ELSE [st EXCEPT !.newVideos = Append(@, ProcessVideoHandle(d, handle, currentPath, st.nextId)),
                         !.nextId = @ + 1]
    ELSE st

RECURSIVE AddProcessEntry(_, _, _, _, _)
RECURSIVE AddProcessEntries(_, _, _, _, _)

\* for await (const entry of handle.values()) await processEntry(entry, path)
AddProcessEntries(st, existingPaths, d, dir, path) ==
    IF ~dir.ok THEN [st EXCEPT !.thrown = TRUE]
    ELSE LET RECURSIVE Loop(_, _)
             Loop(s, i) ==
                 IF s.thrown \/ i > Len(dir.children) THEN s
                 ELSE Loop(AddProcessEntry(s, existingPaths, d, dir.children[i], path), i + 1)
         IN Loop(st, 1)

AddProcessEntry(st, existingPaths, d, handle, path) ==
    LET currentPath == Append(path, handle.name)
    IN IF handle.kind = "file"
       THEN AddFile(st, existingPaths, d, handle, currentPath)
       ELSE AddProcessEntries(st, existingPaths, d, handle, currentPath)

\* addVideosToStateAndDb, the in-memory half
AddVideosToState(prev, newVideos) == prev \o newVideos

HandleAddLibraryFolder(d, io) ==
    /\ Len(libraryFolders) < MaxFolders
    /\ io \in {"ok", "addLibraryFolder", "addVideos"}
    /\ LET dirHandle == fs[d]
           newLibraryFolder == [id |-> Len(libraryFolders) + 1, name |-> dirHandle.name, handle |-> d]
           existingPaths == {Join(videos[i].filePath) : i \in 1..Len(videos)}
           w == AddProcessEntries(AddWalk0(nextId), existingPaths, d, dirHandle, <<dirHandle.name>>)
       IN IF io = "addLibraryFolder"
          THEN /\ lastOp' = Op("addFolder", "error", TRUE)
               /\ UNCHANGED <<libraryFolders, dbVideos, videos, nextId>>
          ELSE /\ libraryFolders' = Append(libraryFolders, newLibraryFolder)
               /\ nextId' = w.nextId
               /\ IF w.thrown
                  THEN /\ io = "ok"
                       /\ lastOp' = Op("addFolder", "error", FALSE)
                       /\ UNCHANGED <<dbVideos, videos>>
                  ELSE IF w.newVideos = <<>>
                  THEN /\ io = "ok"
                       /\ lastOp' = Op("addFolder", "ok", FALSE)
                       /\ UNCHANGED <<dbVideos, videos>>
                  ELSE /\ videos' = AddVideosToState(videos, w.newVideos)
                       /\ IF io = "addVideos"
                          THEN /\ lastOp' = Op("addFolder", "error", TRUE)
                               /\ UNCHANGED dbVideos
                          ELSE /\ lastOp' = Op("addFolder", "ok", FALSE)
                               /\ dbVideos' = BulkAddRows(dbVideos, w.newVideos)
    /\ Disturb
    /\ UNCHANGED <<fs, dbPlaylists, playlists, pc, scan>>


(***************************************************************************)
(* handleRescanLibrary                                                     *)
(***************************************************************************)
\* new Map(allDbVideos.map(v => [v.filePath.join('/'), v])): for a key that
\* occurs twice the later row wins
ExistingVideoPaths(allDbVideos) ==
    LET keys == {Join(allDbVideos[i].filePath) : i \in 1..Len(allDbVideos)}
        last(k) == CHOOSE i \in 1..Len(allDbVideos) :
                       /\ Join(allDbVideos[i].filePath) = k
                       /\ \A j \in 1..Len(allDbVideos) :
                              Join(allDbVideos[j].filePath) = k => j <= i
    IN [k \in keys |-> allDbVideos[last(k)]]

\* the walk's locals
Walk0(id) == [foundPaths |-> {}, videosToAdd |-> <<>>, videosToUpdate |-> <<>>,
              nextId |-> id, thrown |-> FALSE]

\* the catch rethrows: a failed extraction ends the walk
ProcessNewFile_Rethrow(st, d, handle, currentPath) ==
    IF ProcessVideoHandleThrows(handle)
    THEN [st EXCEPT !.thrown = TRUE]
    ELSE [st EXCEPT !.videosToAdd = Append(@, ProcessVideoHandle(d, handle, currentPath, st.nextId)),
                    !.nextId = @ + 1]

\* try { videosToAdd.push(await processVideoHandle(...)) } catch { log }
ProcessNewFile(st, d, handle, currentPath) ==
    IF ProcessVideoHandleThrows(handle)
    THEN st
    ELSE [st EXCEPT !.videosToAdd = Append(@, ProcessVideoHandle(d, handle, currentPath, st.nextId)),
                    !.nextId = @ + 1]

\* the relinked record is built anew instead of copied
Relinked_Fresh(existingVideo, d, currentPath) ==
    NewVideo(existingVideo.id, FileHandle(d, currentPath), existingVideo.filePath,
             existingVideo.name, DateNow)

\* videosToUpdate.push({ ...existingVideo, handle })
Relinked(existingVideo, d, currentPath) ==
    [existingVideo EXCEPT !.handle = FileHandle(d, currentPath)]

\* foundPaths.add moved into the branch of a new file
ClassifyFile_FoundOnlyNew(st, existingVideoPaths, d, handle, currentPath) ==
    LET pathStr == Join(currentPath)
        st1 == [st EXCEPT !.foundPaths = @ \cup {pathStr}]
    IN IF pathStr \notin DOMAIN existingVideoPaths
       THEN ProcessNewFile(st1, d, handle, currentPath)
       ELSE IF existingVideoPaths[pathStr].handle = NoHandle
       THEN [st EXCEPT !.videosToUpdate = Append(@, Relinked(existingVideoPaths[pathStr], d, currentPath))]
       ELSE st

\* the file branch of handleRescanLibrary.processEntry
ClassifyFile(st, existingVideoPaths, d, handle, currentPath) ==
    LET pathStr == Join(currentPath)
        st1 == [st EXCEPT !.foundPaths = @ \cup {pathStr}]
    IN IF pathStr \notin DOMAIN existingVideoPaths
       THEN ProcessNewFile(st1, d, handle, currentPath)
       ELSE IF existingVideoPaths[pathStr].handle = NoHandle
       THEN [st1 EXCEPT !.videosToUpdate = Append(@, Relinked(existingVideoPaths[pathStr], d, currentPath))]
       ELSE st1

RECURSIVE ProcessEntry(_, _, _, _, _)
RECURSIVE ProcessEntries(_, _, _, _, _)

\* for await (const entry of handle.values()) await processEntry(entry, path)
ProcessEntries(st, existingVideoPaths, d, dir, path) ==
    IF ~dir.ok THEN [st EXCEPT !.thrown = TRUE]
    ELSE LET RECURSIVE Loop(_, _)
             Loop(s, i) ==
                 IF s.thrown \/ i > Len(dir.children) THEN s
                 ELSE Loop(ProcessEntry(s, existingVideoPaths, d, dir.children[i], path), i + 1)
         IN Loop(st, 1)

ProcessEntry(st, existingVideoPaths, d, handle, path) ==
    LET currentPath == Append(path, handle.name)
    IN IF handle.kind = "file" /\ MatchesVideoExt(handle.name)
       THEN ClassifyFile(st, existingVideoPaths, d, handle, currentPath)
       ELSE IF handle.kind = "directory"
       THEN ProcessEntries(st, existingVideoPaths, d, handle, currentPath)
       ELSE st

RECURSIVE WalkFolders(_, _, _, _)
\* for (const folder of libraryFolders) for await (entry of folder.handle.values()) ...
WalkFolders(st, existingVideoPaths, folders, disk) ==
    IF st.thrown \/ folders = <<>> THEN st
    ELSE LET folder == Head(folders)
         IN WalkFolders(ProcessEntries(st, existingVideoPaths, folder.handle,
                                       disk[folder.handle], <<folder.name>>),
                        existingVideoPaths, Tail(folders), disk)

\* the filter without its length test
DeletedVideoIds_NoGuard(allDbVideos, foundPaths) ==
    LET keep(v) == Join(v.filePath) \notin foundPaths
        filtered == SelectSeq(allDbVideos, keep)
    IN [i \in 1..Len(filtered) |-> filtered[i].id]

\* allDbVideos.filter(v => v.filePath.length > 1 && !foundPaths.has(join)).map(v => v.id)
DeletedVideoIds(allDbVideos, foundPaths) ==
    LET keep(v) == Len(v.filePath) > 1 /\ Join(v.filePath) \notin foundPaths
        filtered == SelectSeq(allDbVideos, keep)
    IN [i \in 1..Len(filtered) |-> filtered[i].id]


\* the pass without its test for an empty list of folders
RescanWalk_NoGuard(io) ==
    /\ pc = "idle"
    /\ io \in {"ok", "read"}
    /\ IF io = "read"
       THEN /\ lastOp' = Op("rescanWalk", "error", TRUE)
            /\ UNCHANGED <<nextId, pc, scan, quiet>>
       ELSE LET allDbVideos == ToArray(dbVideos)
                w == WalkFolders(Walk0(nextId), ExistingVideoPaths(allDbVideos),
                                 libraryFolders, fs)
            IN /\ nextId' = w.nextId
               /\ IF w.thrown
                  THEN /\ lastOp' = Op("rescanWalk", "error", FALSE)
                       /\ UNCHANGED <<pc, scan, quiet>>
                  ELSE /\ lastOp' = Op("rescanWalk", "ok", FALSE)
                       /\ pc' = "computed"
                       /\ quiet' = TRUE
                       /\ scan' = [allDbVideos |-> allDbVideos,
                                   foundPaths |-> w.foundPaths,
                                   videosToAdd |-> w.videosToAdd,
                                   videosToUpdate |-> w.videosToUpdate,
                                   deletedVideoIds |-> DeletedVideoIds(allDbVideos, w.foundPaths)]
    /\ UNCHANGED <<fs, libraryFolders, dbVideos, dbPlaylists, videos, playlists, settled,
                   interrupted>>

\* the pass up to the end of the walk: read the folders and the records,
\* walk every root, compute the three lists
RescanWalk(io) ==
    /\ pc = "idle"
    /\ io \in {"ok", "read"}
    /\ IF io = "read"
       THEN /\ lastOp' = Op("rescanWalk", "error", TRUE)
            /\ UNCHANGED <<nextId, pc, scan, quiet>>
       ELSE IF Len(libraryFolders) = 0
       THEN /\ lastOp' = Op("rescanWalk", "nofolders", FALSE)
            /\ UNCHANGED <<nextId, pc, scan, quiet>>
       ELSE LET allDbVideos == ToArray(dbVideos)
                w == WalkFolders(Walk0(nextId), ExistingVideoPaths(allDbVideos),
                                 libraryFolders, fs)
            IN /\ nextId' = w.nextId
               /\ IF w.thrown
                  THEN /\ lastOp' = Op("rescanWalk", "error", FALSE)
                       /\ UNCHANGED <<pc, scan, quiet>>
                  ELSE /\ lastOp' = Op("rescanWalk", "ok", FALSE)
                       /\ pc' = "computed"
                       /\ quiet' = TRUE
                       /\ scan' = [allDbVideos |-> allDbVideos,
                                   foundPaths |-> w.foundPaths,
                                   videosToAdd |-> w.videosToAdd,
                                   videosToUpdate |-> w.videosToUpdate,
                                   deletedVideoIds |-> DeletedVideoIds(allDbVideos, w.foundPaths)]
    /\ UNCHANGED <<fs, libraryFolders, dbVideos, dbPlaylists, videos, playlists, settled,
                   interrupted>>

\* the relinked records are never written
ApplyUpdates_Skipped(table, videosToUpdate) == table

\* for (const video of videosToUpdate) await db.updateVideo(video)
ApplyUpdates(table, videosToUpdate) == PutAll(table, videosToUpdate)

\* the three writes of the pass, stopped by the first one that fails:
\* which = 0 none fails, 1 addVideos, 1 + k the k-th updateVideo, and
\* 2 + Len(videosToUpdate) deleteVideos
ApplyDiff(table, s, which) ==
    LET nUpd == Len(s.videosToUpdate)
        t1 == IF which = 1 THEN table ELSE BulkAddRows(table, s.videosToAdd)
        done == IF which = 0 \/ which > 1 + nUpd THEN nUpd
                ELSE IF which = 1 THEN 0 ELSE which - 2
        t2 == ApplyUpdates(t1, SubSeq(s.videosToUpdate, 1, done))
        t3 == IF which = 0 THEN BulkDelete(t2, Range(s.deletedVideoIds)) ELSE t2
    IN t3

\* the joined paths of a table, each with whether its record has a handle
PathStatus(table) ==
    {<<Join(table[k].filePath), table[k].handle # NoHandle>> : k \in DOMAIN table}

\* the rest of the pass: apply the lists to the store, re-read, setVideos
RescanApply(which) ==
    /\ pc = "computed"
    /\ which \in 0..(2 + Len(scan.videosToUpdate))
    /\ which = 1 => scan.videosToAdd # <<>>
    /\ which = 2 + Len(scan.videosToUpdate) => scan.deletedVideoIds # <<>>
    /\ dbVideos' = ApplyDiff(dbVideos, scan, which)
    /\ IF which = 0
       THEN /\ videos' = IF scan.videosToAdd # <<>> \/ scan.videosToUpdate # <<>>
                            \/ scan.deletedVideoIds # <<>>
                         THEN ToArray(dbVideos') ELSE videos
            /\ lastOp' = Op("rescanApply", "ok", FALSE)
            /\ settled' = IF ~quiet THEN "no"
                          ELSE IF scan.videosToAdd # <<>> \/ scan.videosToUpdate # <<>>
                                  \/ scan.deletedVideoIds # <<>>
                          THEN "changed" ELSE "same"
       ELSE /\ videos' = videos
            /\ lastOp' = Op("rescanApply", "error", TRUE)
            /\ settled' = "no"
    /\ interrupted' = IF which = 0 \/ ~quiet THEN NoInterrupt
                      ELSE IF interrupted.pending THEN interrupted
                      ELSE [pending |-> TRUE, ideal |-> PathStatus(ApplyDiff(dbVideos, scan, 0))]
    /\ pc' = "idle"
    /\ scan' = EmptyScan
    /\ quiet' = FALSE
    /\ UNCHANGED <<fs, libraryFolders, dbPlaylists, playlists, nextId>>


(***************************************************************************)
(* handleImportLibrary                                                     *)
(***************************************************************************)
\* a video of a backup: it was added before this installation started
ImportedVideo(id, path, fileName) == NewVideo(id, NoHandle, path, fileName, 0)
Playlist(id, name, videoIds) == [id |-> id, name |-> name, videoIds |-> videoIds]

\* a handle property read from JSON: an object, but no FileSystemFileHandle
JsonObject == [dir |-> "json", path |-> <<>>]

\* a backup file: syntax "bad" does not parse; a shape is "missing" (absent,
\* null, falsy), "illshaped" (present but not an array) or "array"
BackupFile(vshape, vs, pshape, ps) ==
    [syntax |-> "json", vshape |-> vshape, videos |-> vs, pshape |-> pshape, playlists |-> ps]

\* an id written by another installation: randomUUID never returns it here.
\* Any other id in a backup is the id of a record of this store.
IsForeignId(id) == id > 100

Backups ==
    { [BackupFile("missing", <<>>, "missing", <<>>) EXCEPT !.syntax = "bad"],
      BackupFile("missing", <<>>, "array", <<Playlist(201, "fav", <<101>>)>>),
      BackupFile("illshaped", <<>>, "array", <<Playlist(201, "fav", <<101>>)>>),
      BackupFile("array", <<ImportedVideo(102, <<sA>>, sA)>>, "illshaped", <<>>),
      BackupFile("array", <<ImportedVideo(101, <<sLib, sA>>, sA)>>,
                 "array", <<Playlist(201, "fav", <<101>>)>>),
      BackupFile("array", <<ImportedVideo(101, <<sLib, sA>>, sA),
                            ImportedVideo(102, <<sLib, sA>>, sA)>>, "array", <<>>),
      BackupFile("array", <<ImportedVideo(102, <<sLibSlashA>>, sA)>>, "array", <<>>),
      BackupFile("array", <<ImportedVideo(1, <<sA>>, sA)>>,
                 "array", <<Playlist(201, "old", <<>>)>>) }

\* backups written by an earlier version or by hand: a video that carries a
\* handle property, and a playlist named like one of Backups under another id
OtherBackups ==
    { BackupFile("array", <<[ImportedVideo(103, <<sAlt, sA>>, sA) EXCEPT !.handle = JsonObject]>>,
                 "array", <<Playlist(202, "fav", <<103>>)>>),
      BackupFile("array", <<>>,
                 "array", <<Playlist(203, "fav", <<>>), Playlist(204, "old", <<>>)>>) }

\* data.videos.filter(v => !existingVideoPaths.has(v.filePath.join('/')))
VideosToImport(allDbVideos, incoming) ==
    LET existingVideoPaths == {Join(allDbVideos[i].filePath) : i \in 1..Len(allDbVideos)}
        fresh(v) == Join(v.filePath) \notin existingVideoPaths
    IN SelectSeq(incoming, fresh)

\* the playlists the loop saves: those whose id was not in the store when
\* the loop started
PlaylistsToSave(table, incoming) ==
    LET absent(p) == p.id \notin DOMAIN table
    IN SelectSeq(incoming, absent)

HandleImportLibrary(b, io) ==
    /\ b \in Backups \cup OtherBackups
    /\ \A i \in 1..Len(b.videos) :
           b.videos[i].id \in DOMAIN dbVideos \/ IsForeignId(b.videos[i].id)
    /\ io \in {"ok", "addVideos", "savePlaylist"}
    /\ LET videosToImport == VideosToImport(ToArray(dbVideos), b.videos)
           added == BulkAddRows(dbVideos, videosToImport)
           toSave == PlaylistsToSave(dbPlaylists, b.playlists)
           done(outcome, failed) == lastOp' = [Op("import", outcome, failed) EXCEPT !.backup = b]
       IN IF b.syntax = "bad" \/ b.vshape = "missing" \/ b.pshape = "missing"
             \/ b.vshape = "illshaped"
          THEN /\ io = "ok"
               /\ done("error", FALSE)
               /\ UNCHANGED <<dbVideos, dbPlaylists, videos, playlists>>
          ELSE IF io = "addVideos"
          THEN /\ done("error", TRUE)
               /\ UNCHANGED <<dbVideos, dbPlaylists, videos, playlists>>
          ELSE IF BulkAddRejects(dbVideos, videosToImport)
          THEN /\ io = "ok"
               /\ dbVideos' = added
               /\ done("bulkError", FALSE)
               /\ UNCHANGED <<dbPlaylists, videos, playlists>>
          ELSE IF b.pshape = "illshaped"
          THEN /\ io = "ok"
               /\ dbVideos' = added
               /\ done("error", FALSE)
               /\ UNCHANGED <<dbPlaylists, videos, playlists>>
          ELSE IF io = "savePlaylist"
          THEN /\ toSave # <<>>
               /\ dbVideos' = added
               /\ done("error", TRUE)
               /\ UNCHANGED <<dbPlaylists, videos, playlists>>
          ELSE /\ dbVideos' = added
               /\ dbPlaylists' = PutAll(dbPlaylists, toSave)
               /\ videos' = ToArray(dbVideos')
               /\ playlists' = ToArray(dbPlaylists')
               /\ done("ok", FALSE)
    /\ Disturb
    /\ UNCHANGED <<fs, libraryFolders, nextId, pc, scan>>

(***************************************************************************)
(* handleExportLibrary: the file it offers for download is kept in lastOp  *)
(***************************************************************************)
\* exportVideos.map(({ handle, ...rest }) => rest)
SerializableVideos(exportVideos) ==
    [i \in 1..Len(exportVideos) |-> [exportVideos[i] EXCEPT !.handle = NoHandle]]

HandleExportLibrary(io) ==
    /\ io \in {"ok", "read"}
    /\ IF io = "read"
       THEN lastOp' = Op("export", "error", TRUE)
       ELSE lastOp' = [Op("export", "ok", FALSE) EXCEPT
                          !.backup = BackupFile("array", SerializableVideos(ToArray(dbVideos)),
                                                "array", ToArray(dbPlaylists))]
    /\ Disturb
    /\ UNCHANGED <<fs, libraryFolders, dbVideos, dbPlaylists, videos, playlists,
                   nextId, pc, scan>>

(***************************************************************************)
(* updateVideo and deleteVideo, as called from VideoInfoPanel              *)
(***************************************************************************)
Ratings == {0, 5}

\* setVideos(prev => prev.map(v => v.id === updatedVideo.id ? updatedVideo : v))
ReplaceInState(prev, updatedVideo) ==
    [i \in 1..Len(prev) |-> IF prev[i].id = updatedVideo.id THEN updatedVideo ELSE prev[i]]

UpdateVideo(i, r, io) ==
    /\ i \in 1..Len(videos)
    /\ r \in Ratings
    /\ r # videos[i].rating
    /\ io \in {"ok", "updateVideo"}
    /\ LET updatedVideo == [videos[i] EXCEPT !.rating = r]
       IN /\ videos' = ReplaceInState(videos, updatedVideo)
          /\ IF io = "ok"
             THEN /\ dbVideos' = Put(dbVideos, updatedVideo)
                  /\ lastOp' = Op("updateVideo", "ok", FALSE)
             ELSE /\ UNCHANGED dbVideos
                  /\ lastOp' = Op("updateVideo", "error", TRUE)
    /\ Disturb
    /\ UNCHANGED <<fs, libraryFolders, dbPlaylists, playlists, nextId, pc, scan>>

\* setVideos(prev => prev.filter(v => v.id !== videoId))
RemoveFromState(prev, videoId) ==
    LET other(v) == v.id # videoId IN SelectSeq(prev, other)

DeleteVideo(i, io) ==
    /\ i \in 1..Len(videos)
    /\ io \in {"ok", "deleteVideo"}
    /\ videos' = RemoveFromState(videos, videos[i].id)
    /\ IF io = "ok"
       THEN /\ dbVideos' = BulkDelete(dbVideos, {videos[i].id})
            /\ lastOp' = Op("deleteVideo", "ok", FALSE)
       ELSE /\ UNCHANGED dbVideos
            /\ lastOp' = Op("deleteVideo", "error", TRUE)
    /\ Disturb
    /\ UNCHANGED <<fs, libraryFolders, dbPlaylists, playlists, nextId, pc, scan>>

(***************************************************************************)
(* deleteVideos, as called from DuplicateFinderModal                       *)
(***************************************************************************)
\* setVideos(prev => prev.filter(v => !videoIds.includes(v.id)))
RemoveAllFromState(prev, videoIds) ==
    LET other(v) == v.id \notin videoIds IN SelectSeq(prev, other)

DeleteVideos(videoIds, io) ==
    /\ io \in {"ok", "deleteVideos"}
    /\ videos' = RemoveAllFromState(videos, videoIds)
    /\ IF io = "ok"
       THEN /\ dbVideos' = BulkDelete(dbVideos, videoIds)
            /\ lastOp' = Op("deleteVideos", "ok", FALSE)
       ELSE /\ UNCHANGED dbVideos
            /\ lastOp' = Op("deleteVideos", "error", TRUE)
    /\ Disturb
    /\ UNCHANGED <<fs, libraryFolders, dbPlaylists, playlists, nextId, pc, scan>>

(***************************************************************************)
(* DuplicateFinderModal.  A duration is kept in tenths of a second, so     *)
(* that 604 stands for 60.4 s.                                             *)
(***************************************************************************)
\* number of records the modal is opened on
MaxVideos == 4

Sizes == {1000, 2000}
Durations == {600, 604, 605}

\* the fields of a Video the modal reads
DupVideo(id, size, duration) == [id |-> id, size |-> size, duration |-> duration]

\* rounding towards zero instead of to the nearest second
MathRound_Trunc(duration) == duration \div 10

\* Math.round: floor(x + 0.5)
MathRound(duration) == (duration + 5) \div 10

DigitChar(d) == <<"0", "1", "2", "3", "4", "5", "6", "7", "8", "9">>[d + 1]

RECURSIVE NumberToString(_)
\* the decimal string a template literal makes of an integer
NumberToString(n) ==
    IF n < 0 THEN <<"-">> \o NumberToString(0 - n)
    ELSE IF n < 10 THEN <<DigitChar(n)>>
    ELSE NumberToString(n \div 10) \o <<DigitChar(n % 10)>>

\* `${video.size}-${Math.round(video.duration)}`
DuplicateKey(video) ==
    NumberToString(video.size) \o <<"-">> \o NumberToString(MathRound(video.duration))

\* if (!groups.has(key)) groups.set(key, []); groups.get(key).push(video):
\* a Map keeps its keys in insertion order
GroupsPush(groups, video) ==
    LET key == DuplicateKey(video)
    IN IF \E i \in 1..Len(groups) : groups[i].key = key
       THEN [i \in 1..Len(groups) |->
                IF groups[i].key = key
                THEN [groups[i] EXCEPT !.values = Append(@, video)]
                ELSE groups[i]]
       ELSE Append(groups, [key |-> key, values |-> <<video>>])

RECURSIVE GroupsOf(_, _)
\* videos.forEach(video => ...)
GroupsOf(groups, vs) ==
    IF vs = <<>> THEN groups ELSE GroupsOf(GroupsPush(groups, Head(vs)), Tail(vs))

\* Array.from(groups.values()).filter(group => group.length > 1)
DuplicateGroups(vs) ==
    LET groups == GroupsOf(<<>>, vs)
        values == [i \in 1..Len(groups) |-> groups[i].values]
        several(group) == Len(group) > 1
    IN SelectSeq(values, several)

\* the ids the user can tick in the modal: those of the records it lists
Listed(vs) ==
    LET g == DuplicateGroups(vs)
    IN UNION {{g[i][j].id : j \in 1..Len(g[i])} : i \in 1..Len(g)}

\* the modal is opened on a library of up to MaxVideos records
InitDuplicates ==
    /\ fs = [d \in Dirs |-> InitialTree(d)]
    /\ libraryFolders = <<>>
    /\ \E n \in 0..MaxVideos : \E f \in [1..n -> Sizes \X Durations] :
           /\ videos = [i \in 1..n |-> DupVideo(i, f[i][1], f[i][2])]
           /\ dbVideos = [i \in 1..n |-> DupVideo(i, f[i][1], f[i][2])]
           /\ nextId = n + 1
    /\ dbPlaylists = EmptyTable
    /\ playlists = <<>>
    /\ pc = "idle"
    /\ scan = EmptyScan
    /\ settled = "no"
    /\ quiet = FALSE
    /\ lastOp = Op("init", "ok", FALSE)
    /\ steps = 0
    /\ interrupted = NoInterrupt
    /\ extraction = NoExtraction
    /\ walk = NoWalk
    /\ uploads = {}
    /\ player = NoPlayer

\* handleDeleteSelected: onDeleteVideos(Array.from(selectedToDelete))
NextDuplicates ==
  /\ Tick
  /\ UNCHANGED <<extraction, walk, uploads, player>>
  /\ \E ids \in SUBSET Listed(videos) : \E io \in {"ok", "deleteVideos"} :
         /\ ids # {}
         /\ DeleteVideos(ids, io)

SpecDuplicates == InitDuplicates /\ [][NextDuplicates]_vars

(***************************************************************************)
(* extractMetadataFromFile and getAdvancedMetadata.  Each callback of the  *)
(* video element, of the FileReader and of the MP4Box file is one action.  *)
(***************************************************************************)
\* what MP4Box does with the buffer: onReady with a video track, onReady
\* without one, onError, or neither; "readError" is a FileReader that fails
ParserOutcomes == {"readyTrack", "readyNoTrack", "error", "readError", "silent"}

\* info.videoTracks[0]
VideoTrack(bitrate) ==
    [codec |-> "avc1", bitrate |-> bitrate, nb_samples |-> 240, duration |-> 8000,
     timescale |-> 1000]

\* a file as the extraction sees it; mp4box: the MP4Box global is defined
MediaFiles ==
    [ decodable : BOOLEAN, ctx : BOOLEAN, mp4 : BOOLEAN, mp4box : BOOLEAN,
      parser : ParserOutcomes, size : {0, 1000}, duration : {0, 80},
      videoWidth : {640}, videoHeight : {360}, trackBitrate : {0, 500} ]

\* the approximate bitrate without the test of the duration
ApproximateBitrate_Untested(size, duration) ==
    Defined((size * 8 * 10) \div (IF duration > 0 THEN duration ELSE 1))

\* videoElement.duration > 0 ? (file.size * 8) / videoElement.duration : undefined
ApproximateBitrate(size, duration) ==
    IF duration > 0 THEN Defined((size * 8 * 10) \div duration) ELSE Undefined

\* advancedData.bitrate || approximate: undefined and 0 are falsy
BitrateOf(advancedData, size, duration) ==
    IF advancedData.bitrate # Undefined /\ advancedData.bitrate # Defined(0)
    THEN advancedData.bitrate
    ELSE ApproximateBitrate(size, duration)

\* resolve({})
EmptyAdvanced == [codec |-> Undefined, bitrate |-> Undefined, frameRate |-> Undefined]

\* resolve({ codec, bitrate, frameRate })
TrackAdvanced(videoTrack) ==
    [codec |-> Defined(videoTrack.codec),
     bitrate |-> Defined(videoTrack.bitrate),
     frameRate |-> Defined(videoTrack.nb_samples \div (videoTrack.duration \div videoTrack.timescale))]

\* the object literal videoData
VideoData(file, thumbnail, advancedData) ==
    [thumbnail |-> thumbnail, duration |-> file.duration, size |-> file.size,
     width |-> file.videoWidth, height |-> file.videoHeight,
     codec |-> advancedData.codec,
     bitrate |-> BitrateOf(advancedData, file.size, file.duration),
     frameRate |-> advancedData.frameRate]

InitExtract ==
    /\ fs = [d \in Dirs |-> InitialTree(d)]
    /\ libraryFolders = <<>>
    /\ dbVideos = EmptyTable
    /\ dbPlaylists = EmptyTable
    /\ videos = <<>>
    /\ playlists = <<>>
    /\ nextId = 1
    /\ pc = "idle"
    /\ scan = EmptyScan
    /\ settled = "no"
    /\ quiet = FALSE
    /\ lastOp = Op("init", "ok", FALSE)
    /\ steps = 0
    /\ interrupted = NoInterrupt
    /\ \E f \in MediaFiles : extraction = [NoExtraction EXCEPT !.file = f, !.phase = "loading"]
    /\ walk = NoWalk
    /\ uploads = {}
    /\ player = NoPlayer

AppUnchanged ==
    UNCHANGED <<fs, libraryFolders, dbVideos, dbPlaylists, videos, playlists,
                nextId, pc, scan, settled, quiet, lastOp, steps, interrupted, walk,
                uploads, player>>

\* videoElement.onloadedmetadata
OnLoadedMetadata ==
    /\ extraction.phase = "loading"
    /\ extraction.file.decodable
    /\ extraction' = [extraction EXCEPT !.phase = "seeking"]
    /\ AppUnchanged

\* videoElement.onerror
OnError ==
    /\ extraction.phase = "loading"
    /\ ~extraction.file.decodable
    /\ extraction' = [extraction EXCEPT !.phase = "rejected"]
    /\ AppUnchanged

\* videoElement.onseeked up to its await: the frame capture, then the
\* executor of getAdvancedMetadata
OnSeeked ==
    /\ extraction.phase = "seeking"
    /\ IF ~extraction.file.ctx
       THEN extraction' = [extraction EXCEPT !.phase = "rejected"]
       ELSE IF ~extraction.file.mp4 \/ ~extraction.file.mp4box
       THEN extraction' = [extraction EXCEPT !.phase = "awaiting",
                                              !.thumbnail = Defined("data:image/jpeg"),
                                              !.adv = "resolved",
                                              !.advancedData = EmptyAdvanced]
       ELSE extraction' = [extraction EXCEPT !.phase = "awaiting",
                                              !.thumbnail = Defined("data:image/jpeg"),
                                              !.adv = "reading"]
    /\ AppUnchanged

\* reader.onload: appendBuffer and flush
ReaderOnLoad ==
    /\ extraction.adv = "reading"
    /\ extraction.file.parser # "readError"
    /\ extraction' = [extraction EXCEPT !.adv = "parsing"]
    /\ AppUnchanged

\* reader.onerror
ReaderOnError ==
    /\ extraction.adv = "reading"
    /\ extraction.file.parser = "readError"
    /\ extraction' = [extraction EXCEPT !.adv = "resolved", !.advancedData = EmptyAdvanced]
    /\ AppUnchanged

\* mp4boxfile.onReady
Mp4OnReady ==
    /\ extraction.adv = "parsing"
    /\ extraction.file.parser \in {"readyTrack", "readyNoTrack"}
    /\ extraction' =
           [extraction EXCEPT
               !.adv = "resolved",
               !.advancedData = IF extraction.file.parser = "readyTrack"
                                THEN TrackAdvanced(VideoTrack(extraction.file.trackBitrate))
                                ELSE EmptyAdvanced]
    /\ AppUnchanged

\* mp4boxfile.onError
Mp4OnError ==
    /\ extraction.adv = "parsing"
    /\ extraction.file.parser = "error"
    /\ extraction' = [extraction EXCEPT !.adv = "resolved", !.advancedData = EmptyAdvanced]
    /\ AppUnchanged

\* videoElement.onseeked after its await: videoData, cleanup, resolve
Resolve ==
    /\ extraction.phase = "awaiting"
    /\ extraction.adv = "resolved"
    /\ extraction' = [extraction EXCEPT
                          !.phase = "resolved",
                          !.videoData = Defined(VideoData(extraction.file, extraction.thumbnail,
                                                          extraction.advancedData))]
    /\ AppUnchanged

NextExtract ==
    \/ OnLoadedMetadata
    \/ OnError
    \/ OnSeeked
    \/ ReaderOnLoad
    \/ ReaderOnError
    \/ Mp4OnReady
    \/ Mp4OnError
    \/ Resolve

\* the event loop runs every callback whose event has happened
SpecExtract == InitExtract /\ [][NextExtract]_vars /\ WF_vars(NextExtract)

(***************************************************************************)
(* createPlaylist, addVideoToPlaylist, removeVideoFromPlaylist and         *)
(* deletePlaylist                                                          *)
(***************************************************************************)
\* the names the user types, in the order of localeCompare
PlaylistNames == <<"", "fav", "old">>

\* a.name.localeCompare(b.name) <= 0
NameNotAfter(a, b) ==
    LET rank(n) == CHOOSE i \in 1..Len(PlaylistNames) : PlaylistNames[i] = n
    IN rank(a.name) <= rank(b.name)

RECURSIVE SortByName(_)
\* Array.prototype.sort with the name comparator: stable
SortByName(ps) ==
    IF ps = <<>> THEN <<>>
    ELSE LET m == CHOOSE i \in 1..Len(ps) :
                      /\ \A j \in 1..Len(ps) : NameNotAfter(ps[i], ps[j])
                      /\ \A j \in 1..(i - 1) : ~NameNotAfter(ps[j], ps[i])
             rest == [j \in 1..(Len(ps) - 1) |-> IF j < m THEN ps[j] ELSE ps[j + 1]]
         IN <<ps[m]>> \o SortByName(rest)

CreatePlaylist(name, io) ==
    /\ io \in {"ok", "savePlaylist"}
    /\ IF name # "" /\ ~(\E i \in 1..Len(playlists) : playlists[i].name = name)
       THEN LET newPlaylist == Playlist(nextId, name, <<>>)
            IN /\ nextId' = nextId + 1
               /\ playlists' = SortByName(Append(playlists, newPlaylist))
               /\ IF io = "ok"
                  THEN /\ dbPlaylists' = Put(dbPlaylists, newPlaylist)
                       /\ lastOp' = [Op("createPlaylist", "ok", FALSE) EXCEPT !.args = <<name>>]
                  ELSE /\ UNCHANGED dbPlaylists
                       /\ lastOp' = [Op("createPlaylist", "error", TRUE) EXCEPT !.args = <<name>>]
       ELSE /\ io = "ok"
            /\ lastOp' = [Op("createPlaylist", "skipped", FALSE) EXCEPT !.args = <<name>>]
            /\ UNCHANGED <<nextId, playlists, dbPlaylists>>
    /\ Disturb
    /\ UNCHANGED <<fs, libraryFolders, dbVideos, videos, pc, scan>>

\* the updater of addVideoToPlaylist without its includes test
WithVideo_Untested(p, videoId, playlistId) ==
    IF p.id = playlistId
    THEN [p EXCEPT !.videoIds = Append(@, videoId)]
    ELSE p

\* the updater of addVideoToPlaylist, on one playlist
WithVideo(p, videoId, playlistId) ==
    IF p.id = playlistId /\ videoId \notin Range(p.videoIds)
    THEN [p EXCEPT !.videoIds = Append(@, videoId)]
    ELSE p

\* the updater of removeVideoFromPlaylist, on one playlist
WithoutVideo(p, videoId, playlistId) ==
    IF p.id = playlistId
    THEN LET other(id) == id # videoId
         IN [p EXCEPT !.videoIds = SelectSeq(@, other)]
    ELSE p

\* the playlist the updater left in updatedPlaylist (the last of those it
\* replaced, at the places hit), if the updater has run and replaced one
UpdatedPlaylist(next, hit, ran) ==
    IF ran /\ hit # {}
    THEN Defined(next[CHOOSE i \in hit : \A j \in hit : j <= i])
    ELSE Undefined

\* setPlaylists(updater); if (updatedPlaylist) await db.savePlaylist(...).
\* ran: React has called the updater by the time setPlaylists returns; it
\* does so only when no other update of App is pending
SavePlaylistChange(name, next, updatedPlaylist, args, io) ==
    /\ io \in {"ok", "savePlaylist"}
    /\ playlists' = next
    /\ IF updatedPlaylist = Undefined
       THEN /\ io = "ok"
            /\ lastOp' = [Op(name, "unsaved", FALSE) EXCEPT !.args = args]
            /\ UNCHANGED dbPlaylists
       ELSE IF io = "ok"
       THEN /\ dbPlaylists' = Put(dbPlaylists, updatedPlaylist[1])
            /\ lastOp' = [Op(name, "ok", FALSE) EXCEPT !.args = args]
       ELSE /\ UNCHANGED dbPlaylists
            /\ lastOp' = [Op(name, "error", TRUE) EXCEPT !.args = args]
    /\ Disturb
    /\ UNCHANGED <<fs, libraryFolders, dbVideos, videos, nextId, pc, scan>>

AddVideoToPlaylist(videoId, playlistId, ran, io) ==
    LET next == [i \in 1..Len(playlists) |-> WithVideo(playlists[i], videoId, playlistId)]
        hit == {i \in 1..Len(playlists) : next[i] # playlists[i]}
    IN SavePlaylistChange("addVideoToPlaylist", next, UpdatedPlaylist(next, hit, ran),
                          <<videoId, playlistId>>, io)

RemoveVideoFromPlaylist(videoId, playlistId, ran, io) ==
    LET next == [i \in 1..Len(playlists) |-> WithoutVideo(playlists[i], videoId, playlistId)]
        hit == {i \in 1..Len(playlists) : playlists[i].id = playlistId}
    IN SavePlaylistChange("removeVideoFromPlaylist", next, UpdatedPlaylist(next, hit, ran),
                          <<videoId, playlistId>>, io)

DeletePlaylist(playlistId, io) ==
    /\ io \in {"ok", "deletePlaylist"}
    /\ playlists' = LET other(p) == p.id # playlistId IN SelectSeq(playlists, other)
    /\ IF io = "ok"
       THEN /\ dbPlaylists' = BulkDelete(dbPlaylists, {playlistId})
            /\ lastOp' = [Op("deletePlaylist", "ok", FALSE) EXCEPT !.args = <<playlistId>>]
       ELSE /\ UNCHANGED dbPlaylists
            /\ lastOp' = [Op("deletePlaylist", "error", TRUE) EXCEPT !.args = <<playlistId>>]
    /\ Disturb
    /\ UNCHANGED <<fs, libraryFolders, dbVideos, videos, nextId, pc, scan>>

\* the backups that bring playlists
PlaylistBackups ==
    {b \in Backups \cup OtherBackups :
        b.syntax = "json" /\ b.vshape = "array" /\ b.pshape = "array" /\ b.playlists # <<>>}

\* the playlists menu of a video card and the sidebar
NextPlaylists ==
  /\ Tick
  /\ UNCHANGED <<extraction, walk, uploads, player>>
  /\
    \/ \E i \in 1..Len(PlaylistNames) : \E io \in {"ok", "savePlaylist"} :
           CreatePlaylist(PlaylistNames[i], io)
    \/ \E v \in 1..Len(videos) : \E p \in 1..Len(playlists) :
       \E ran \in BOOLEAN : \E io \in {"ok", "savePlaylist"} :
           AddVideoToPlaylist(videos[v].id, playlists[p].id, ran, io)
    \/ \E v \in 1..Len(videos) : \E p \in 1..Len(playlists) :
       \E ran \in BOOLEAN : \E io \in {"ok", "savePlaylist"} :
           RemoveVideoFromPlaylist(videos[v].id, playlists[p].id, ran, io)
    \/ \E p \in 1..Len(playlists) : \E io \in {"ok", "deletePlaylist"} :
           DeletePlaylist(playlists[p].id, io)
    \/ \E b \in PlaylistBackups : \E io \in {"ok", "addVideos", "savePlaylist"} :
           HandleImportLibrary(b, io)

SpecPlaylists == Init /\ [][NextPlaylists]_vars


(***************************************************************************)
(* The walk of one root over directory trees of every shape up to MaxDepth *)
(* levels of subdirectories                                                *)
(***************************************************************************)
\* levels of subdirectories below a root
MaxDepth == 1

sD == <<"d", ".", "a", "v", "i">>
sMp4 == <<"m", "p", "4">>
sAx == <<"a", ".", "m", "p", "4", "x">>

\* the files of one directory, in the order values() yields them
FileLists ==
    { <<>>,
      <<FileNode(sA, TRUE), FileNode(sTxt, TRUE)>>,
      <<FileNode(sMp4, TRUE), FileNode(sB, TRUE), FileNode(sA, FALSE), FileNode(sAx, TRUE)>> }

RECURSIVE ChildLists(_)
\* the entries of a directory with up to depth levels below it: files, and
\* at most one subdirectory, named sub and yielded last or named d.avi and
\* yielded first
ChildLists(depth) ==
    IF depth = 0 THEN FileLists
    ELSE FileLists
         \cup {fl \o <<DirNode(sSub, TRUE, ch)>> : fl \in FileLists, ch \in ChildLists(depth - 1)}
         \cup {<<DirNode(sD, TRUE, ch)>> \o fl : fl \in FileLists, ch \in ChildLists(depth - 1)}

\* the directory the user is about to pick holds any of these trees
InitWalk ==
    /\ \E ch \in ChildLists(MaxDepth) :
           fs = [d \in Dirs |-> IF d = "d1" THEN DirNode(sLib, TRUE, ch) ELSE InitialTree(d)]
    /\ libraryFolders = <<>>
    /\ dbVideos = EmptyTable
    /\ dbPlaylists = EmptyTable
    /\ videos = <<>>
    /\ playlists = <<>>
    /\ nextId = 1
    /\ pc = "idle"
    /\ scan = EmptyScan
    /\ settled = "no"
    /\ quiet = FALSE
    /\ lastOp = Op("init", "ok", FALSE)
    /\ steps = 0
    /\ interrupted = NoInterrupt
    /\ extraction = NoExtraction
    /\ walk = NoWalk
    /\ uploads = {}
    /\ player = NoPlayer

\* Add Library on that directory, with db.addVideos failing or not, and
\* Rescan Library with every persistence call succeeding
NextWalk ==
  /\ Tick
  /\ UNCHANGED <<extraction, walk, uploads, player>>
  /\
    \/ \E io \in {"ok", "addVideos"} : HandleAddLibraryFolder("d1", io)
    \/ RescanWalk("ok")
    \/ RescanApply(0)

SpecWalk == InitWalk /\ [][NextWalk]_vars


(***************************************************************************)
(* The scans file by file: a scan is at an await of processVideoHandle or  *)
(* between two of them.  handleAddLibraryFolder and handleRescanLibrary    *)
(* can be scanning at the same time; every directory is readable.          *)
(***************************************************************************)
RECURSIVE ExtractionCalls(_, _, _, _)
\* the calls of processVideoHandle a walk makes, in the order of the walk:
\* one for every file that matches the regex and whose joined path has no
\* record
ExtractionCalls(existing, d, dir, path) ==
    LET RECURSIVE Loop(_)
        Loop(i) ==
            IF i > Len(dir.children) THEN <<>>
            ELSE LET handle == dir.children[i]
                     currentPath == Append(path, handle.name)
                 IN (IF handle.kind = "file"
                     THEN IF MatchesVideoExt(handle.name) /\ Join(currentPath) \notin existing
                          THEN <<[dir |-> d, handle |-> handle, path |-> currentPath]>>
                          ELSE <<>>
                     ELSE ExtractionCalls(existing, d, handle, currentPath))
                    \o Loop(i + 1)
    IN Loop(1)

RECURSIVE RootCalls(_, _)
\* for (const folder of libraryFolders) ...
RootCalls(existing, folders) ==
    IF folders = <<>> THEN <<>>
    ELSE LET folder == Head(folders)
         IN ExtractionCalls(existing, folder.handle, fs[folder.handle], <<folder.name>>)
            \o RootCalls(existing, Tail(folders))

\* the scan does not wait for the extraction it started
Awaited_Detached(w) == TRUE

\* await processVideoHandle(...): the scan goes on when the promise has settled
Awaited(w) == w.inFlight = {}

\* handleAddLibraryFolder up to its walk
BeginAddFolder(d) ==
    /\ walk["addFolder"].phase = "idle"
    /\ Len(libraryFolders) < MaxFolders
    /\ LET dirHandle == fs[d]
           newLibraryFolder == [id |-> Len(libraryFolders) + 1, name |-> dirHandle.name, handle |-> d]
           existingPaths == {Join(videos[i].filePath) : i \in 1..Len(videos)}
       IN /\ libraryFolders' = Append(libraryFolders, newLibraryFolder)
          /\ walk' = [walk EXCEPT !["addFolder"] =
                         [IdleScan EXCEPT
                             !.phase = "walking",
                             !.calls = ExtractionCalls(existingPaths, d, dirHandle, <<dirHandle.name>>)]]
    /\ lastOp' = Op("addFolder", "walking", FALSE)
    /\ Disturb
    /\ Tick
    /\ UNCHANGED <<fs, dbVideos, dbPlaylists, videos, playlists, nextId, pc, scan>>

\* handleRescanLibrary up to its walk
BeginRescan ==
    /\ walk["rescan"].phase = "idle"
    /\ Len(libraryFolders) > 0
    /\ LET allDbVideos == ToArray(dbVideos)
       IN walk' = [walk EXCEPT !["rescan"] =
                      [IdleScan EXCEPT
                          !.phase = "walking",
                          !.snapshot = allDbVideos,
                          !.calls = RootCalls(DOMAIN ExistingVideoPaths(allDbVideos), libraryFolders)]]
    /\ lastOp' = Op("rescanWalk", "walking", FALSE)
    /\ Disturb
    /\ Tick
    /\ UNCHANGED <<fs, libraryFolders, dbVideos, dbPlaylists, videos, playlists, nextId,
                   pc, scan>>

\* the scan p reaches its next call of processVideoHandle
StartExtraction(p) ==
    /\ walk[p].phase = "walking"
    /\ walk[p].next <= Len(walk[p].calls)
    /\ Awaited(walk[p])
    /\ walk' = [walk EXCEPT ![p].inFlight = @ \cup {walk[p].next}, ![p].next = @ + 1]
    /\ UNCHANGED <<fs, libraryFolders, dbVideos, dbPlaylists, videos, playlists, nextId,
                   pc, scan, settled, quiet, lastOp, steps, interrupted>>

\* the promise of the i-th call of the scan p resolves or rejects
SettleExtraction(p, i) ==
    /\ i \in walk[p].inFlight
    /\ LET call == walk[p].calls[i]
       IN IF ProcessVideoHandleThrows(call.handle)
          THEN /\ walk' = [walk EXCEPT ![p].inFlight = @ \ {i}]
               /\ UNCHANGED nextId
          ELSE /\ walk' = [walk EXCEPT
                              ![p].inFlight = @ \ {i},
                              ![p].results = Append(@, ProcessVideoHandle(call.dir, call.handle,
                                                                          call.path, nextId))]
               /\ nextId' = nextId + 1
    /\ UNCHANGED <<fs, libraryFolders, dbVideos, dbPlaylists, videos, playlists,
                   pc, scan, settled, quiet, lastOp, steps, interrupted>>

\* the walk of handleAddLibraryFolder is over: addVideosToStateAndDb(newVideos)
FinishAddFolder ==
    /\ walk["addFolder"].phase = "walking"
    /\ walk["addFolder"].next > Len(walk["addFolder"].calls)
    /\ Awaited(walk["addFolder"])
    /\ LET newVideos == walk["addFolder"].results
       IN IF newVideos = <<>>
          THEN UNCHANGED <<videos, dbVideos>>
          ELSE /\ videos' = AddVideosToState(videos, newVideos)
               /\ dbVideos' = BulkAddRows(dbVideos, newVideos)
    /\ walk' = [walk EXCEPT !["addFolder"] = IdleScan]
    /\ lastOp' = Op("addFolder", "ok", FALSE)
    /\ Disturb
    /\ UNCHANGED <<fs, libraryFolders, dbPlaylists, playlists, nextId, pc, scan, steps>>

\* the walk of handleRescanLibrary is over: the three writes and the re-read
FinishRescan ==
    /\ walk["rescan"].phase = "walking"
    /\ walk["rescan"].next > Len(walk["rescan"].calls)
    /\ Awaited(walk["rescan"])
    /\ LET allDbVideos == walk["rescan"].snapshot
           w == WalkFolders(Walk0(nextId), ExistingVideoPaths(allDbVideos), libraryFolders, fs)
           s == [allDbVideos |-> allDbVideos,
                 foundPaths |-> w.foundPaths,
                 videosToAdd |-> walk["rescan"].results,
                 videosToUpdate |-> w.videosToUpdate,
                 deletedVideoIds |-> DeletedVideoIds(allDbVideos, w.foundPaths)]
       IN /\ dbVideos' = ApplyDiff(dbVideos, s, 0)
          /\ videos' = IF s.videosToAdd # <<>> \/ s.videosToUpdate # <<>>
                          \/ s.deletedVideoIds # <<>>
                       THEN ToArray(dbVideos') ELSE videos
    /\ walk' = [walk EXCEPT !["rescan"] = IdleScan]
    /\ lastOp' = Op("rescanApply", "ok", FALSE)
    /\ Disturb
    /\ UNCHANGED <<fs, libraryFolders, dbPlaylists, playlists, nextId, pc, scan, steps>>

\* the readable trees of a directory, and for Lib one with three videos
ScanTrees(d) ==
    {t \in TreesOf(d) : t.ok}
    \cup (IF d = "d1"
          THEN {DirNode(sLib, TRUE, << FileNode(sB, TRUE),
                                      DirNode(sSub, TRUE, <<FileNode(sA, FALSE), FileNode(sB, TRUE)>>) >>)}
          ELSE {})

InitScans ==
    /\ fs \in [Dirs -> UNION {ScanTrees(d) : d \in Dirs}]
    /\ \A d \in Dirs : fs[d] \in ScanTrees(d)
    /\ libraryFolders = <<>>
    /\ dbVideos = EmptyTable
    /\ dbPlaylists = EmptyTable
    /\ videos = <<>>
    /\ playlists = <<>>
    /\ nextId = 1
    /\ pc = "idle"
    /\ scan = EmptyScan
    /\ settled = "no"
    /\ quiet = FALSE
    /\ lastOp = Op("init", "ok", FALSE)
    /\ steps = 0
    /\ interrupted = NoInterrupt
    /\ extraction = NoExtraction
    /\ walk = NoWalk
    /\ uploads = {}
    /\ player = NoPlayer

NextScans ==
  /\ UNCHANGED <<extraction, uploads, player>>
  /\
    \/ \E d \in Dirs : BeginAddFolder(d)
    \/ BeginRescan
    \/ \E p \in DOMAIN walk : StartExtraction(p)
    \/ \E p \in DOMAIN walk : \E i \in walk[p].inFlight : SettleExtraction(p, i)
    \/ FinishAddFolder
    \/ FinishRescan

SpecScans == InitScans /\ [][NextScans]_vars


(***************************************************************************)
(* Playlists next to the handlers that remove records, every persistence   *)
(* call succeeding                                                         *)
(***************************************************************************)
NextRefs ==
  /\ Tick
  /\ UNCHANGED <<extraction, walk, uploads, player>>
  /\
    \/ \E d \in Dirs : \E t \in TreesOf(d) : FsChange(d, t)
    \/ \E d \in Dirs : HandleAddLibraryFolder(d, "ok")
    \/ RescanWalk("ok")
    \/ RescanApply(0)
    \/ \E i \in 2..Len(PlaylistNames) : CreatePlaylist(PlaylistNames[i], "ok")
    \/ \E v \in 1..Len(videos) : \E p \in 1..Len(playlists) :
           AddVideoToPlaylist(videos[v].id, playlists[p].id, TRUE, "ok")
    \/ \E i \in 1..Len(videos) : DeleteVideo(i, "ok")

SpecRefs == Init /\ [][NextRefs]_vars


(***************************************************************************)
(* handleTranscriptUpload of VideoInfoPanel: the FileReader is started in  *)
(* the handler and its onload callback runs later, with the video the      *)
(* panel showed when the handler ran.  Every persistence call succeeds.    *)
(***************************************************************************)
\* reader.onload = ...; reader.readAsText(file)
HandleTranscriptUpload(i) ==
    /\ i \in 1..Len(videos)
    /\ uploads' = uploads \cup {videos[i]}
    /\ lastOp' = [Op("transcriptUpload", "reading", FALSE) EXCEPT !.args = <<videos[i].id>>]
    /\ Disturb
    /\ UNCHANGED <<fs, libraryFolders, dbVideos, dbPlaylists, videos, playlists, nextId,
                   pc, scan>>

\* reader.onload: onUpdateVideo({ ...video, transcript: content })
ReaderOnLoadTranscript(video) ==
    /\ video \in uploads
    /\ LET updatedVideo == [video EXCEPT !.transcript = Defined("WEBVTT")]
       IN /\ videos' = ReplaceInState(videos, updatedVideo)
          /\ dbVideos' = Put(dbVideos, updatedVideo)
    /\ uploads' = uploads \ {video}
    /\ lastOp' = [Op("updateVideo", "ok", FALSE) EXCEPT !.args = <<video.id>>]
    /\ Disturb
    /\ UNCHANGED <<fs, libraryFolders, dbPlaylists, playlists, nextId, pc, scan>>

\* the backups that are arrays of videos and of playlists
WellShapedBackups ==
    {b \in Backups : b.syntax = "json" /\ b.vshape = "array" /\ b.pshape = "array"}

NextEdits ==
  /\ Tick
  /\ UNCHANGED <<extraction, walk, player>>
  /\
    \/ /\ UNCHANGED uploads
       /\ \/ \E d \in Dirs : HandleAddLibraryFolder(d, "ok")
          \/ \E b \in WellShapedBackups : HandleImportLibrary(b, "ok")
          \/ RescanWalk("ok")
          \/ RescanApply(0)
          \/ \E i \in 1..Len(videos) : DeleteVideo(i, "ok")
    \/ \E i \in 1..Len(videos) : HandleTranscriptUpload(i)
    \/ \E video \in uploads : ReaderOnLoadTranscript(video)

SpecEdits == Init /\ [][NextEdits]_vars


(***************************************************************************)
(* handleFileChange (Add Videos) and handleNameSave of VideoInfoPanel      *)
(***************************************************************************)
\* a File of the input: ok, its metadata can be extracted
File(n, ok) == [name |-> n, ok |-> ok]

\* event.target.files: one file or two, with different names
FileLists2 ==
    LET fileSet == {File(sA, TRUE), File(sA, FALSE), File(sB, TRUE)}
    IN {<<f>> : f \in fileSet}
       \cup {pair \in fileSet \X fileSet : pair[1].name # pair[2].name}

\* processVideoFile: no handle, filePath: [file.name]
ProcessVideoFile(file, id) == NewVideo(id, NoHandle, <<file.name>>, file.name, DateNow)

RECURSIVE FileLoop(_, _, _)
\* for (const file of files) { if (existingNames.has(file.name)) continue; ... }
FileLoop(st, existingNames, files) ==
    IF files = <<>> THEN st
    ELSE LET file == Head(files)
             st1 == IF file.name \in existingNames \/ ~file.ok
                    THEN st
                    ELSE [st EXCEPT !.newVideos = Append(@, ProcessVideoFile(file, st.nextId)),
                                    !.nextId = @ + 1]
         IN FileLoop(st1, existingNames, Tail(files))

HandleFileChange(files, io) ==
    /\ io \in {"ok", "addVideos"}
    /\ LET existingNames == {videos[i].name : i \in 1..Len(videos)}
           st == FileLoop(AddWalk0(nextId), existingNames, files)
       IN /\ nextId' = st.nextId
          /\ IF st.newVideos = <<>>
             THEN /\ io = "ok"
                  /\ lastOp' = [Op("fileChange", "ok", FALSE) EXCEPT !.args = files]
                  /\ UNCHANGED <<videos, dbVideos>>
             ELSE /\ videos' = AddVideosToState(videos, st.newVideos)
                  /\ IF io = "addVideos"
                     THEN /\ lastOp' = [Op("fileChange", "error", TRUE) EXCEPT !.args = files]
                          /\ UNCHANGED dbVideos
                     ELSE /\ lastOp' = [Op("fileChange", "ok", FALSE) EXCEPT !.args = files]
                          /\ dbVideos' = BulkAddRows(dbVideos, st.newVideos)
    /\ Disturb
    /\ UNCHANGED <<fs, libraryFolders, dbPlaylists, playlists, pc, scan>>

\* the names the user types in the panel
NewNames == {sB, sTxt}

\* handleNameSave: onUpdateVideo({ ...video, name: trimmedName })
HandleNameSave(i, trimmedName, io) ==
    /\ i \in 1..Len(videos)
    /\ trimmedName # <<>>
    /\ trimmedName # videos[i].name
    /\ io \in {"ok", "updateVideo"}
    /\ LET updatedVideo == [videos[i] EXCEPT !.name = trimmedName]
       IN /\ videos' = ReplaceInState(videos, updatedVideo)
          /\ IF io = "ok"
             THEN /\ dbVideos' = Put(dbVideos, updatedVideo)
                  /\ lastOp' = Op("updateVideo", "ok", FALSE)
             ELSE /\ UNCHANGED dbVideos
                  /\ lastOp' = Op("updateVideo", "error", TRUE)
    /\ Disturb
    /\ UNCHANGED <<fs, libraryFolders, dbPlaylists, playlists, nextId, pc, scan>>

NextFiles ==
  /\ Tick
  /\ UNCHANGED <<extraction, walk, uploads, player>>
  /\
    \/ \E files \in FileLists2 : \E io \in {"ok", "addVideos"} : HandleFileChange(files, io)
    \/ \E i \in 1..Len(videos) : \E n \in NewNames : \E io \in {"ok", "updateVideo"} :
           HandleNameSave(i, n, io)

SpecFiles == Init /\ [][NextFiles]_vars


(***************************************************************************)
(* The player: the effect that makes the object URL of the selected video. *)
(* player.effects lists the runs of the effect, each with its own          *)
(* objectUrl; player.urls lists the object URLs made, an URL being named   *)
(* by its index                                                            *)
(***************************************************************************)
\* one run of the effect: the selection it saw, whether its getFile is
\* still pending, and its local objectUrl
EffectRun(sel, state) == [selectedVideoId |-> sel, state |-> state, objectUrl |-> Undefined]

\* return () => { if (objectUrl) URL.revokeObjectURL(objectUrl) } of the
\* latest run
Cleanup(p) ==
    IF p.effects = <<>> THEN p.urls
    ELSE LET last == p.effects[Len(p.effects)]
         IN IF last.objectUrl = Undefined THEN p.urls
            ELSE [p.urls EXCEPT ![last.objectUrl[1]].revoked = TRUE]

\* videos.find(v => v.id === selectedVideoId)?.handle
SelectedHasHandle(sel, vids) ==
    /\ sel # Undefined
    /\ \E i \in 1..Len(vids) :
           /\ vids[i].id = sel[1]
           /\ \A j \in 1..(i - 1) : vids[j].id # sel[1]
           /\ vids[i].handle # NoHandle

\* a change of selectedVideoId or of videos: the cleanup of the previous
\* run, then a new run up to its await (or to its end when the selected
\* video has no handle)
RunEffect(p, sel, vids) ==
    IF SelectedHasHandle(sel, vids)
    THEN [p EXCEPT !.selectedVideoId = sel,
                   !.urls = Cleanup(p),
                   !.effects = Append(p.effects, EffectRun(sel, "pending"))]
    ELSE [p EXCEPT !.selectedVideoId = sel,
                   !.urls = Cleanup(p),
                   !.currentVideoUrl = Undefined,
                   !.effects = Append(p.effects, EffectRun(sel, "done"))]

\* onVideoSelect={setSelectedVideoId} and the close button
SetSelectedVideoId(sel) ==
    /\ sel # player.selectedVideoId
    /\ player' = RunEffect(player, sel, videos)
    /\ UNCHANGED <<fs, libraryFolders, dbVideos, dbPlaylists, videos, playlists, nextId, pc,
                   scan, settled, quiet, lastOp, interrupted>>

\* await video.handle.getFile() of run r settles: createObjectURL and
\* setCurrentVideoUrl(objectUrl), or the catch block
GetFileSettles(r, ok) ==
    /\ r \in 1..Len(player.effects)
    /\ player.effects[r].state = "pending"
    /\ IF ok
       THEN LET url == Len(player.urls) + 1
            IN player' = [player EXCEPT
                   !.urls = Append(@, [video |-> player.effects[r].selectedVideoId,
                                       run |-> r, revoked |-> FALSE]),
                   !.effects[r].objectUrl = Defined(url),
                   !.effects[r].state = "done",
                   !.currentVideoUrl = Defined(url)]
       ELSE player' = [player EXCEPT !.effects[r].state = "done",
                                     !.currentVideoUrl = Undefined]
    /\ UNCHANGED <<fs, libraryFolders, dbVideos, dbPlaylists, videos, playlists, nextId, pc,
                   scan, settled, quiet, lastOp, interrupted>>

\* a handler that replaces the videos array runs the effect again
VideosChanged ==
    IF videos' = videos THEN UNCHANGED player
    ELSE player' = RunEffect(player, player.selectedVideoId, videos')

NextPlayer ==
  /\ Tick
  /\ UNCHANGED <<extraction, walk, uploads>>
  /\
    \/ \E d \in Dirs : HandleAddLibraryFolder(d, "ok") /\ VideosChanged
    \/ \E b \in WellShapedBackups : HandleImportLibrary(b, "ok") /\ VideosChanged
    \/ \E sel \in {Undefined} \cup {Defined(videos[i].id) : i \in 1..Len(videos)} :
           SetSelectedVideoId(sel)
    \/ \E r \in 1..Len(player.effects) : \E ok \in BOOLEAN : GetFileSettles(r, ok)

SpecPlayer == Init /\ [][NextPlayer]_vars

(***************************************************************************)
(* Specification                                                           *)
(***************************************************************************)
Next ==
  /\ Tick
  /\ UNCHANGED <<extraction, walk, uploads, player>>
  /\
    \/ \E d \in Dirs : \E t \in TreesOf(d) : FsChange(d, t)
    \/ \E d \in Dirs : \E io \in {"ok", "addLibraryFolder", "addVideos"} :
           HandleAddLibraryFolder(d, io)
    \/ \E io \in {"ok", "read"} : RescanWalk(io)
    \/ \E which \in 0..(2 + Len(scan.videosToUpdate)) : RescanApply(which)
    \/ \E b \in Backups : \E io \in {"ok", "addVideos", "savePlaylist"} :
           HandleImportLibrary(b, io)
    \/ \E i \in 1..Len(videos) : \E r \in Ratings : \E io \in {"ok", "updateVideo"} :
           UpdateVideo(i, r, io)
    \/ \E i \in 1..Len(videos) : \E io \in {"ok", "deleteVideo"} : DeleteVideo(i, io)

Spec == Init /\ [][Next]_vars

\* backup and restore: export, import of the other backups, and the
\* handlers that can follow an import
NextBackup ==
  /\ Tick
  /\ UNCHANGED <<extraction, walk, uploads, player>>
  /\
    \/ \E io \in {"ok", "read"} : HandleExportLibrary(io)
    \/ \E b \in OtherBackups : \E io \in {"ok", "addVideos", "savePlaylist"} :
           HandleImportLibrary(b, io)
    \/ \E d \in Dirs : \E io \in {"ok", "addLibraryFolder", "addVideos"} :
           HandleAddLibraryFolder(d, io)
    \/ \E io \in {"ok", "read"} : RescanWalk(io)
    \/ \E which \in 0..(2 + Len(scan.videosToUpdate)) : RescanApply(which)
    \/ \E i \in 1..Len(videos) : \E r \in Ratings : \E io \in {"ok", "updateVideo"} :
           UpdateVideo(i, r, io)

SpecBackup == Init /\ [][NextBackup]_vars


(***************************************************************************)
(* What the claims speak about                                             *)
(***************************************************************************)
RECURSIVE VideoFilesUnder(_, _)
\* the video files below a directory, each with its full path
VideoFilesUnder(dir, path) ==
    UNION { IF dir.children[i].kind = "file"
            THEN IF MatchesVideoExt(dir.children[i].name)
                 THEN {[path |-> Append(path, dir.children[i].name), ok |-> dir.children[i].ok]}
                 ELSE {}
            ELSE VideoFilesUnder(dir.children[i], Append(path, dir.children[i].name))
          : i \in 1..Len(dir.children) }

Roots == Range(libraryFolders)
DiskFiles == UNION {VideoFilesUnder(fs[f.handle], <<f.name>>) : f \in Roots}
DiskVideoPaths == {Join(x.path) : x \in DiskFiles}
AllRootsReadable == \A f \in Roots : fs[f.handle].ok

Rows(table) == {table[k] : k \in DOMAIN table}
StoredPaths == {Join(r.filePath) : r \in Rows(dbVideos)}
Snapshot == Range(scan.allDbVideos)
SnapshotPaths == {Join(v.filePath) : v \in Snapshot}

\* the state right after the walk of a pass, before anything else has run
JustWalked == pc = "computed" /\ lastOp.op = "rescanWalk"

NoDiff == scan.videosToAdd = <<>> /\ scan.videosToUpdate = <<>> /\ scan.deletedVideoIds = <<>>

\* C1: a pass that follows a fully applied pass, with nothing in between,
\* computes an empty videosToAdd, videosToUpdate and deletedVideoIds
C1_Idempotence == (pc = "computed" /\ settled # "no") => NoDiff

\* the second pass has been computed after a first pass that changed the store
C1_Witness == pc = "computed" /\ settled = "changed"

\* C2: after a pass has been applied no two live records share a joined path
C2_PathUniqueness ==
    (lastOp.op = "rescanApply" /\ lastOp.outcome = "ok")
        => \A r1, r2 \in Rows(dbVideos) :
               (r1.handle # NoHandle /\ r2.handle # NoHandle
                /\ Join(r1.filePath) = Join(r2.filePath)) => r1.id = r2.id

\* C3: a record whose filePath has one segment is never in deletedVideoIds
C3_RemovalGuard ==
    pc = "computed"
        => \A v \in Snapshot : Len(v.filePath) = 1 => v.id \notin Range(scan.deletedVideoIds)

\* a pass that removes some record while a one-segment record that no root
\* holds is in the store
C3_Witness ==
    /\ pc = "computed"
    /\ scan.deletedVideoIds # <<>>
    /\ \E v \in Snapshot : Len(v.filePath) = 1 /\ Join(v.filePath) \notin scan.foundPaths

\* C4: a placeholder is in videosToUpdate exactly when the walk discovers a
\* video file whose joined path equals the placeholder's joined filePath
C4_RelinkIffPathEqual ==
    JustWalked
        => \A v \in Snapshot :
               v.handle = NoHandle
                   => ((\E i \in 1..Len(scan.videosToUpdate) : scan.videosToUpdate[i].id = v.id)
                       <=> Join(v.filePath) \in DiskVideoPaths)

\* C5: deletedVideoIds is exactly the ids of the records read at the start
\* of the pass that have more than one segment and whose joined path is not
\* the path of a video file in any root
C5_RemovedClassification ==
    JustWalked
        => /\ Range(scan.deletedVideoIds)
                = {v.id : v \in {u \in Snapshot : /\ Len(u.filePath) > 1
                                                  /\ Join(u.filePath) \notin DiskVideoPaths}}
           /\ \A i, j \in 1..Len(scan.deletedVideoIds) :
                  scan.deletedVideoIds[i] = scan.deletedVideoIds[j] => i = j

\* a pass that removes one multi-segment record and keeps another one
C5_Witness ==
    /\ JustWalked
    /\ scan.deletedVideoIds # <<>>
    /\ \E v \in Snapshot : Len(v.filePath) > 1 /\ v.id \notin Range(scan.deletedVideoIds)

\* the discovered files the pass has to extract, and those that fail
NewDiskFiles == {x \in DiskFiles : Join(x.path) \notin StoredPaths}
FailingNewFiles == {x \in NewDiskFiles : ~x.ok}

\* the pass is walking readable roots and meets a file whose extraction fails
WalkedOverFailure ==
    /\ lastOp.op = "rescanWalk"
    /\ ~lastOp.ioFailed
    /\ Roots # {}
    /\ AllRootsReadable
    /\ FailingNewFiles # {}

\* every file is classified although one extraction failed
FailureSkipped ==
    /\ pc = "computed"
    /\ \A x \in NewDiskFiles :
           IF x.ok
           THEN \E i \in 1..Len(scan.videosToAdd) :
                    /\ scan.videosToAdd[i].filePath = x.path
                    /\ scan.videosToAdd[i].handle # NoHandle
           ELSE /\ \A i \in 1..Len(scan.videosToAdd) : scan.videosToAdd[i].filePath # x.path
                /\ \A v \in Snapshot :
                       Join(v.filePath) = Join(x.path) => v.id \notin Range(scan.deletedVideoIds)
    /\ \A v \in Snapshot :
           (Len(v.filePath) > 1 /\ Join(v.filePath) \notin DiskVideoPaths)
               => v.id \in Range(scan.deletedVideoIds)

\* C6: a failed extraction adds no record and removes none, the walk goes on
\* over the siblings and the other roots, and the pass applies what it found
C6_ExtractionFailureIsolated ==
    [][ /\ WalkedOverFailure' => FailureSkipped'
        /\ (pc = "computed" /\ lastOp'.op = "rescanApply" /\ lastOp'.outcome = "ok")
               => /\ \A i \in 1..Len(scan.videosToAdd) :
                         /\ scan.videosToAdd[i].id \in DOMAIN dbVideos'
                         /\ dbVideos'[scan.videosToAdd[i].id] = scan.videosToAdd[i]
                  /\ \A i \in 1..Len(scan.deletedVideoIds) :
                         scan.deletedVideoIds[i] \notin DOMAIN dbVideos' ]_vars

\* one extraction failed and a file met later in the walk was still added
C6_Witness ==
    /\ WalkedOverFailure
    /\ pc = "computed"
    /\ scan.videosToAdd # <<>>

\* the records a readable root would contribute to the pass
RootAdds(f) ==
    {x \in VideoFilesUnder(fs[f.handle], <<f.name>>) : x.ok /\ Join(x.path) \notin StoredPaths}
RootRelinks(f) ==
    {r \in Rows(dbVideos) :
        /\ r.handle = NoHandle
        /\ \E x \in VideoFilesUnder(fs[f.handle], <<f.name>>) : Join(x.path) = Join(r.filePath)
        /\ \A q \in Rows(dbVideos) : Join(q.filePath) = Join(r.filePath) => q.id = r.id}

\* C7: when one root cannot be enumerated the pass still walks the other
\* roots and carries their additions and relinks
C7_RootFailureIsolated ==
    (lastOp.op = "rescanWalk" /\ ~lastOp.ioFailed /\ ~AllRootsReadable)
        => \A f \in Roots :
               fs[f.handle].ok
                   => /\ \A x \in RootAdds(f) :
                             /\ pc = "computed"
                             /\ \E i \in 1..Len(scan.videosToAdd) :
                                    scan.videosToAdd[i].filePath = x.path
                      /\ \A r \in RootRelinks(f) :
                             /\ pc = "computed"
                             /\ \E i \in 1..Len(scan.videosToUpdate) :
                                    scan.videosToUpdate[i].id = r.id

InSync ==
    /\ Range(videos) = Rows(dbVideos)
    /\ Range(playlists) = Rows(dbPlaylists)

\* C8: a handler in which a persistence call failed leaves videos and
\* playlists as they were, and a state that agreed with the store still does
C8_NoDivergence ==
    [][ (lastOp'.ioFailed \/ lastOp'.outcome = "bulkError")
            => /\ videos' = videos
               /\ playlists' = playlists
               /\ (InSync => InSync') ]_vars

Malformed(b) == b.syntax = "bad" \/ b.vshape # "array" \/ b.pshape # "array"

\* C9: an import that ends in its error path for a malformed backup has
\* written no video and no playlist
C9_MalformedRejected ==
    [][ (lastOp'.op = "import" /\ lastOp'.outcome # "ok" /\ Malformed(lastOp'.backup))
            => dbVideos' = dbVideos /\ dbPlaylists' = dbPlaylists ]_vars

\* C10: an import adds exactly the incoming videos whose joined path is not
\* in the store and the incoming playlists whose id is not in the store,
\* and leaves every stored row as it was
C10_ImportMerge ==
    [][ (lastOp'.op = "import" /\ ~Malformed(lastOp'.backup) /\ ~lastOp'.ioFailed)
            => LET b == lastOp'.backup
               IN /\ Rows(dbVideos')
                        = Rows(dbVideos) \cup {v \in Range(b.videos) : Join(v.filePath) \notin StoredPaths}
                  /\ Rows(dbPlaylists')
                        = Rows(dbPlaylists) \cup {q \in Range(b.playlists) : q.id \notin DOMAIN dbPlaylists} ]_vars

(***************************************************************************)
(* Backup and restore                                                      *)
(***************************************************************************)
\* a record with a handle property, whatever it holds
HasHandle(v) == v.handle # NoHandle

\* C11: every video in the file written by handleExportLibrary has no
\* handle, every row added by handleImportLibrary has no handle, and a row
\* without a handle gets one only in the apply step of a rescan pass
C11_ImportedArePlaceholders ==
    [][ /\ (lastOp'.op = "export" /\ lastOp'.outcome = "ok")
            => \A i \in 1..Len(lastOp'.backup.videos) : ~HasHandle(lastOp'.backup.videos[i])
        /\ lastOp'.op = "import"
            => \A k \in DOMAIN dbVideos' \ DOMAIN dbVideos : ~HasHandle(dbVideos'[k])
        /\ \A k \in DOMAIN dbVideos \cap DOMAIN dbVideos' :
               (~HasHandle(dbVideos[k]) /\ HasHandle(dbVideos'[k]))
                   => lastOp'.op = "rescanApply" ]_vars

(***************************************************************************)
(* Duplicate finder                                                        *)
(***************************************************************************)
\* the whole second nearest to a duration, the upper one when two are as near
NearestSecond(duration) ==
    CHOOSE n \in {duration \div 10, (duration \div 10) + 1} :
        10 * n - 5 <= duration /\ duration < 10 * n + 5

SameClass(a, b) == a.size = b.size /\ NearestSecond(a.duration) = NearestSecond(b.duration)

\* the place of the first record of v's class in the input
FirstOfClass(vs, v) == CHOOSE i \in 1..Len(vs) : SameClass(vs[i], v) /\ \A j \in 1..(i - 1) : ~SameClass(vs[j], v)

\* the records of v's class, in input order
ClassOf(vs, v) == LET same(u) == SameClass(u, v) IN SelectSeq(vs, same)

\* C12: duplicateGroups holds exactly the classes of records with the same
\* size and the same duration rounded to the nearest second that have two
\* members or more, the members in input order and the groups in the order
\* in which their first members occur in the input
C12_DuplicateGrouping ==
    LET g == DuplicateGroups(videos)
    IN /\ \A i \in 1..Len(g) : Len(g[i]) >= 2 /\ g[i] = ClassOf(videos, g[i][1])
       /\ \A k \in 1..Len(videos) :
              Len(ClassOf(videos, videos[k])) >= 2
                  => \E i \in 1..Len(g) : g[i] = ClassOf(videos, videos[k])
       /\ \A i, j \in 1..Len(g) :
              i < j => FirstOfClass(videos, g[i][1]) < FirstOfClass(videos, g[j][1])

\* after a deletion the modal lists one group whose two members differ in
\* duration, and leaves out a record of the same size that rounds elsewhere
C12_Witness ==
    /\ lastOp.op = "deleteVideos"
    /\ Len(DuplicateGroups(videos)) = 1
    /\ \E a, b \in Range(DuplicateGroups(videos)[1]) : a.duration # b.duration
    /\ \E v \in Range(videos) :
           /\ v.id \notin Listed(videos)
           /\ v.size = DuplicateGroups(videos)[1][1].size

(***************************************************************************)
(* Extraction                                                              *)
(***************************************************************************)
\* the format-aware parse is not applicable, or it fails
ParseFailed(file) ==
    \/ ~file.mp4
    \/ ~file.mp4box
    \/ file.parser \in {"error", "readError"}

\* the primary decode and the frame capture have succeeded
Captured == extraction.phase \in {"awaiting", "resolved"}

C14_SecondaryBestEffort == Captured ~> (extraction.phase = "resolved")

(***************************************************************************)
(* Rescan passes and the other handlers                                    *)
(***************************************************************************)
\* C15: from the moment a pass has read the records until it has applied
\* its lists, no other handler changes the stored records
C15_NoConcurrentMutation ==
    [][ (pc = "computed" /\ lastOp'.op # "rescanApply") => dbVideos' = dbVideos ]_vars

\* no joined path is the path of two rows
NoPathTwice(table) ==
    \A j, k \in DOMAIN table : Join(table[j].filePath) = Join(table[k].filePath) => j = k

\* the pass that follows a pass whose writes were cut short, nothing else
\* having run and the disk being as it was
PassAfterInterrupt == pc = "computed" /\ quiet /\ interrupted.pending

\* C16: the store that pass produces holds the paths, each live or
\* placeholder, that the pass cut short would have produced, and no path twice
C16_Convergence ==
    PassAfterInterrupt
        => /\ PathStatus(ApplyDiff(dbVideos, scan, 0)) = interrupted.ideal
           /\ NoPathTwice(ApplyDiff(dbVideos, scan, 0))

(***************************************************************************)
(* Playlists                                                               *)
(***************************************************************************)
NoRepeatedId(p) == \A i, j \in 1..Len(p.videoIds) : p.videoIds[i] = p.videoIds[j] => i = j

NoRepeats == \A p \in Range(playlists) \cup Rows(dbPlaylists) : NoRepeatedId(p)

\* the playlist lastOp.args[2] held the video lastOp.args[1] in this state
Held(args) ==
    \E i \in 1..Len(playlists) :
        playlists[i].id = args[2] /\ args[1] \in Range(playlists[i].videoIds)

\* C17: addVideoToPlaylist with a video the playlist holds changes neither
\* playlists nor the stored playlists, and an add or a remove keeps every
\* videoIds free of repeated ids
C17_NoReAdd ==
    [][ /\ (lastOp'.op = "addVideoToPlaylist" /\ Held(lastOp'.args))
            => playlists' = playlists /\ dbPlaylists' = dbPlaylists
        /\ (lastOp'.op \in {"addVideoToPlaylist", "removeVideoFromPlaylist"} /\ NoRepeats)
            => NoRepeats' ]_vars

\* a video was added again to a playlist that holds it, and the playlist
\* and its stored row still hold it once
C17_Witness ==
    /\ lastOp.op = "addVideoToPlaylist"
    /\ Held(lastOp.args)
    /\ lastOp.outcome = "unsaved"
    /\ \E p \in Rows(dbPlaylists) : p.id = lastOp.args[2] /\ lastOp.args[1] \in Range(p.videoIds)
    /\ NoRepeats

\* C18: no two stored playlists have the same name
C18_NamesUnique ==
    \A p, q \in Rows(dbPlaylists) : p.name = q.name => p.id = q.id

(***************************************************************************)
(* Identity                                                                *)
(***************************************************************************)
\* C19: a record keeps its id and its dateAdded through every handler, in
\* the store and in the in-memory list
C19_IdentityImmutable ==
    [][ /\ \A k \in DOMAIN dbVideos \cap DOMAIN dbVideos' :
               /\ dbVideos'[k].id = dbVideos[k].id
               /\ dbVideos'[k].dateAdded = dbVideos[k].dateAdded
        /\ \A v \in Range(videos) : \A w \in Range(videos') :
               w.id = v.id => w.dateAdded = v.dateAdded
        /\ \A v \in Range(videos) : \A k \in DOMAIN dbVideos' :
               (k = v.id /\ k \in DOMAIN dbVideos) => dbVideos'[k].dateAdded = v.dateAdded ]_vars

\* a pass has relinked an imported record that was rated before: the row
\* has a handle, the rating, and the id and dateAdded of the backup
C19_Witness ==
    /\ lastOp.op = "rescanApply"
    /\ lastOp.outcome = "ok"
    /\ \E k \in DOMAIN dbVideos :
           /\ IsForeignId(k)
           /\ HasHandle(dbVideos[k])
           /\ dbVideos[k].rating = 5
           /\ dbVideos[k].dateAdded = 0

(***************************************************************************)
(* Classification                                                          *)
(***************************************************************************)
\* the records read at the start of the pass whose joined path is that of x
RecordsAt(x) == {v \in Snapshot : Join(v.filePath) = Join(x.path)}

\* the places of videosToAdd and of videosToUpdate that x accounts for
AddsAt(x) == {i \in 1..Len(scan.videosToAdd) : scan.videosToAdd[i].filePath = x.path}
UpdatesAt(x) ==
    {i \in 1..Len(scan.videosToUpdate) : Join(scan.videosToUpdate[i].filePath) = Join(x.path)}

\* C20: after the walk every discovered video file is in one of three
\* cases.  No record at its path: one live record with that path is in
\* videosToAdd if the extraction succeeds, none if it fails, and nothing is
\* in videosToUpdate.  A placeholder at its path: the placeholder is in
\* videosToUpdate with a handle, and nothing is in videosToAdd.  A live
\* record at its path: nothing is in either list.
C20_ThreeWayClassification ==
    JustWalked
        => \A x \in DiskFiles :
               IF RecordsAt(x) = {}
               THEN /\ UpdatesAt(x) = {}
                    /\ IF x.ok
                       THEN /\ Cardinality(AddsAt(x)) = 1
                            /\ \A i \in AddsAt(x) : HasHandle(scan.videosToAdd[i])
                       ELSE AddsAt(x) = {}
               ELSE /\ AddsAt(x) = {}
                    /\ \A v \in RecordsAt(x) :
                           IF HasHandle(v)
                           THEN \A i \in UpdatesAt(x) : scan.videosToUpdate[i].id # v.id
                           ELSE \E i \in UpdatesAt(x) :
                                    /\ scan.videosToUpdate[i].id = v.id
                                    /\ HasHandle(scan.videosToUpdate[i])

(***************************************************************************)
(* What a pass may do to the records it found in the store                 *)
(***************************************************************************)
\* C21: the writes of a pass leave a stored record as it was, or delete it,
\* or, when it is a placeholder whose path the walk discovered, give it a
\* handle and change no other field; a record with a handle whose path the
\* walk discovered stays in the store as it was
C21_RescanFrame ==
    [][ lastOp'.op = "rescanApply"
            => \A k \in DOMAIN dbVideos :
                   /\ \/ k \notin DOMAIN dbVideos'
                      \/ dbVideos'[k] = dbVideos[k]
                      \/ /\ ~HasHandle(dbVideos[k])
                         /\ Join(dbVideos[k].filePath) \in scan.foundPaths
                         /\ HasHandle(dbVideos'[k])
                         /\ [dbVideos'[k] EXCEPT !.handle = NoHandle] = dbVideos[k]
                   /\ (HasHandle(dbVideos[k]) /\ Join(dbVideos[k].filePath) \in scan.foundPaths)
                          => (k \in DOMAIN dbVideos' /\ dbVideos'[k] = dbVideos[k]) ]_vars

(***************************************************************************)
(* The tree walk                                                           *)
(***************************************************************************)
\* the extensions of the claim, in lower case
ClaimedExtensions == {"mp4", "webm", "mov", "mkv", "avi"}

\* the characters of a name written as one string, when it is one of the
\* claimed extensions
Spelled(chars) ==
    {e \in ClaimedExtensions :
        \/ e = "mp4" /\ chars = <<"m", "p", "4">>
        \/ e = "webm" /\ chars = <<"w", "e", "b", "m">>
        \/ e = "mov" /\ chars = <<"m", "o", "v">>
        \/ e = "mkv" /\ chars = <<"m", "k", "v">>
        \/ e = "avi" /\ chars = <<"a", "v", "i">>}

\* the name ends in a dot and one of the extensions, in any case: what
\* follows its last dot is an extension
EndsInVideoExtension(name) ==
    \E i \in 1..Len(name) :
        /\ name[i] = "."
        /\ \A j \in (i + 1)..Len(name) : name[j] # "."
        /\ Spelled(Lower(SubSeq(name, i + 1, Len(name)))) # {}

RECURSIVE FilesBelow(_, _)
\* every file below a directory, at any depth, with the path the claim
\* gives it: the path of the directory, then the names down to the file
FilesBelow(dir, path) ==
    UNION { IF dir.children[i].kind = "file"
            THEN {[path |-> Append(path, dir.children[i].name), ok |-> dir.children[i].ok]}
            ELSE FilesBelow(dir.children[i], Append(path, dir.children[i].name))
          : i \in 1..Len(dir.children) }

\* the files a walk of the root f has to visit
VideoFilesOfRoot(f) ==
    {x \in FilesBelow(fs[f.handle], <<f.name>>) : EndsInVideoExtension(x.path[Len(x.path)])}

\* the places of a list of records that hold the path of x
PlacesOf(records, x) == {i \in 1..Len(records) : records[i].filePath = x.path}

\* records holds one record for every file of todo, and no other record
OnePerFile(records, todo) ==
    /\ \A x \in todo : Cardinality(PlacesOf(records, x)) = 1
    /\ \A i \in 1..Len(records) : \E x \in todo : records[i].filePath = x.path

\* C22: the walk of a root visits every file below it whose name ends in a
\* video extension, once, and no other file, under the path made of the
\* root's name and the names down to the file.  In a pass over one root,
\* foundPaths holds the joined paths of exactly those files and videosToAdd
\* one record for each of them that has no record and can be extracted;
\* handleAddLibraryFolder appends one record for each of them that has no
\* record in memory and can be extracted
C22_WalkExhaustiveExact ==
    [][ /\ (JustWalked' /\ Len(libraryFolders') = 1)
            => LET todo == VideoFilesOfRoot(libraryFolders[1])'
               IN /\ scan'.foundPaths = {Join(x.path) : x \in todo}
                  /\ OnePerFile(scan'.videosToAdd,
                                {x \in todo : x.ok /\ Join(x.path) \notin SnapshotPaths'})
        /\ (lastOp'.op = "addFolder" /\ Len(libraryFolders') = Len(libraryFolders) + 1)
            => LET todo == VideoFilesOfRoot(libraryFolders'[Len(libraryFolders')])
                   known == {Join(v.filePath) : v \in Range(videos)}
               IN /\ Len(videos') >= Len(videos)
                  /\ SubSeq(videos', 1, Len(videos)) = videos
                  /\ OnePerFile(SubSeq(videos', Len(videos) + 1, Len(videos')),
                                {x \in todo : x.ok /\ Join(x.path) \notin known}) ]_vars

\* a pass over one root has found a file with an upper-case extension one
\* directory down, in a directory named like a video, next to files
\* that are no videos, and has a record to add for it
C22_Witness ==
    /\ JustWalked
    /\ Len(libraryFolders) = 1
    /\ \E i \in 1..Len(scan.videosToAdd) : scan.videosToAdd[i].filePath = <<sLib, sD, sB>>
    /\ \E x \in FilesBelow(fs["d1"], <<sLib>>) : x.path = <<sLib, sD, sAx>>
    /\ Join(<<sLib, sD, sA>>) \in scan.foundPaths

(***************************************************************************)
(* Extractions in flight                                                   *)
(***************************************************************************)
\* C23: a scan has at most one extraction in flight, and it is the one it
\* started last: every extraction it started before has settled
C23_SequentialExtraction ==
    \A p \in DOMAIN walk :
        /\ Cardinality(walk[p].inFlight) <= 1
        /\ walk[p].inFlight \subseteq {walk[p].next - 1}

\* the rescan is at its second extraction, the first having settled with a
\* record, while handleAddLibraryFolder is at an extraction of its own
C23_Witness ==
    /\ walk["rescan"].inFlight = {2}
    /\ Len(walk["rescan"].results) = 1
    /\ walk["addFolder"].inFlight # {}

(***************************************************************************)
(* Playlists and the records they name                                     *)
(***************************************************************************)
\* C24: every id in the videoIds of a playlist, stored or listed, is the id
\* of a stored record
C24_PlaylistRefsValid ==
    \A p \in Rows(dbPlaylists) \cup Range(playlists) :
        \A i \in 1..Len(p.videoIds) : p.videoIds[i] \in DOMAIN dbVideos

(***************************************************************************)
(* Deleted records                                                         *)
(***************************************************************************)
\* C25: a row that appears in the store is a record of a backup being
\* imported or a record processVideoHandle made in the handler that stores
\* it.  With every persistence call succeeding, a row that the put of an
\* edit or of a relink finds absent is a record that was deleted, so these
\* writes create no row
C25_DeletedStayDeleted ==
    [][ \A k \in DOMAIN dbVideos' \ DOMAIN dbVideos :
            \/ lastOp'.op \in {"import", "addFolder"}
            \/ /\ lastOp'.op = "rescanApply"
               /\ \E i \in 1..Len(scan.videosToAdd) : scan.videosToAdd[i].id = k ]_vars

(***************************************************************************)
(* Registered roots                                                        *)
(***************************************************************************)
\* C26: no two stored library folders have the same name
C26_RootNamesDistinct ==
    \A i, j \in 1..Len(libraryFolders) :
        libraryFolders[i].name = libraryFolders[j].name => i = j

(***************************************************************************)
(* Add Videos                                                              *)
(***************************************************************************)
\* C27: the records handleFileChange appends have joined paths that differ
\* from those of the records listed or stored before and from one another
C27_FileImportNoDuplicate ==
    [][ lastOp'.op = "fileChange"
            => LET new == SubSeq(videos', Len(videos) + 1, Len(videos'))
                   before == {Join(v.filePath) : v \in Range(videos) \cup Rows(dbVideos)}
               IN /\ \A i \in 1..Len(new) : Join(new[i].filePath) \notin before
                  /\ \A i, j \in 1..Len(new) :
                         Join(new[i].filePath) = Join(new[j].filePath) => i = j ]_vars

(***************************************************************************)
(* Distinct paths after a backup import                                    *)
(***************************************************************************)
\* the rows of a table have pairwise distinct joined paths (their ids are
\* distinct because the table is keyed by id)
DistinctPaths(table) ==
    \A k1, k2 \in DOMAIN table :
        Join(table[k1].filePath) = Join(table[k2].filePath) => k1 = k2

\* C28: an import of a well-shaped backup into a store whose joined paths
\* are pairwise distinct leaves the joined paths pairwise distinct
C28_ImportKeepsDistinct ==
    [][ (lastOp'.op = "import" /\ ~Malformed(lastOp'.backup) /\ DistinctPaths(dbVideos))
            => DistinctPaths(dbVideos') ]_vars

(***************************************************************************)
(* The player                                                              *)
(***************************************************************************)
\* no getFile of any run of the effect is pending
NoPendingGetFile == \A r \in 1..Len(player.effects) : player.effects[r].state # "pending"

\* C29: once no getFile is pending, currentVideoUrl is null or an object
\* URL made for the selected video, and every object URL made by a run
\* earlier than the latest one has been revoked
C29_PlayerUrlMatchesSelection ==
    NoPendingGetFile
        => /\ \/ player.currentVideoUrl = Undefined
              \/ player.urls[player.currentVideoUrl[1]].video = player.selectedVideoId
           /\ \A u \in 1..Len(player.urls) :
                  player.urls[u].run # Len(player.effects) => player.urls[u].revoked

(***************************************************************************)
(* Rescan without a registered root                                        *)
(***************************************************************************)
\* C30: a step of a rescan pass taken while the store holds no library
\* folder leaves every stored and every listed record as it was, and the
\* pass ends there: nothing is left to apply
C30_RescanNoRootsNoOp ==
    [][ (lastOp'.op \in {"rescanWalk", "rescanApply"} /\ Len(libraryFolders) = 0)
            => /\ dbVideos' = dbVideos
               /\ videos' = videos
               /\ pc' = "idle" ]_vars

\* a rescan was asked for with no library folder while the store held a
\* record with a multi-segment path, and the record is still there
C30_Witness ==
    /\ lastOp.op = "rescanWalk"
    /\ lastOp.outcome = "nofolders"
    /\ Len(libraryFolders) = 0
    /\ \E k \in DOMAIN dbVideos : Len(dbVideos[k].filePath) > 1

====
